---- MODULE Spec2Model ----
(***************************************************************************)
(* Model of the normalization-and-grading engine of the lunar quiz page:   *)
(* the normalizer (lib/normalize), the grader and the aggregation          *)
(* (lib/grading).                                                          *)
(*                                                                         *)
(* A string is a sequence of UTF-16 code units (naturals).  A JavaScript   *)
(* value is a record [t, s, n]: t is the type tag, s the string content    *)
(* (or, for an object, the text its ToString yields), n the number in      *)
(* units of 1/Scale (for a boolean, 1 or 0).  A call that may raise        *)
(* returns [thrown, value, warned].                                        *)
(***************************************************************************)
EXTENDS Integers, Sequences, FiniteSets, TLC

VARIABLES
    gfInput,     \* gradeFillin: the userInput argument
    gfRule,      \* gradeFillin: the rule argument
    gfResult,    \* gradeFillin: the outcome of the call
    gfDone,      \* gradeFillin: whether the call has been made
    eqArgs,      \* equalsText: [input, expected, caseInsensitive, normalizeZh]
    eqResult,    \* equalsText: the outcome of the call
    eqDone,      \* equalsText: whether the call has been made
    quiz,        \* summarizeObjective: [mcq, fillins], sequences of questions
    answers,     \* summarizeObjective: [mcq, fillins], id -> answer / rule
    userMcq,     \* summarizeObjective: id -> choice
    userFillins, \* summarizeObjective: id -> response
    summary,     \* summarizeObjective: the outcome of the call
    sumDone,     \* summarizeObjective: whether the call has been made
    mcqChoice,   \* gradeMcq: the userChoiceIdx argument
    mcqAnswer,   \* gradeMcq: the answerIdx argument
    mcqCorrect,  \* gradeMcq: the value returned
    mcqDone,     \* gradeMcq: whether the call has been made
    nzInput,     \* lib/normalize: the string a function is called with
    nzCall,      \* lib/normalize: [fn, lowercase], the call that has been made
    nzResult,    \* lib/normalize: the value the call returned
    nzAgain,     \* normalizeText applied to its own result, once that is done
    objectiveScore, \* computeObjectiveScore: the outcome of the call
    scoreDone,   \* computeObjectiveScore: whether the call has been made
    objects,     \* the accumulator objects the calls of a session have made,
                 \* by address
    calls,       \* the calls of summarizeObjective a session has made
    edits,       \* the number of answers the caller has changed
    mcqResponses,    \* App: id -> choice, the state of the page
    fillinResponses, \* App: id -> response
    fillinStatus,    \* App: id -> true / false / null
    isSubmitted,     \* App: whether the quiz is submitted
    showAnswers,     \* App: whether answers and explanations are switched on
    mounted,         \* App: the component is rendered (no render has raised)
    localStorage,    \* the items the page keeps in the browser's storage
    lastEvent,       \* App: the handler that ran last
    fillinGrades,    \* App: id -> response -> the outcome of gradeFillin
    summaries        \* App: responses -> the outcome of summarizeObjective

vars == <<gfInput, gfRule, gfResult, gfDone, eqArgs, eqResult, eqDone,
          quiz, answers, userMcq, userFillins, summary, sumDone,
          mcqChoice, mcqAnswer, mcqCorrect, mcqDone,
          nzInput, nzCall, nzResult, nzAgain, objectiveScore, scoreDone,
          objects, calls, edits,
          mcqResponses, fillinResponses, fillinStatus, isSubmitted, showAnswers,
          mounted, localStorage, lastEvent, fillinGrades, summaries>>

gfVars == <<gfInput, gfRule, gfResult, gfDone>>
eqVars == <<eqArgs, eqResult, eqDone>>
sumVars == <<quiz, answers, userMcq, userFillins, summary, sumDone,
            objectiveScore, scoreDone>>
mcqVars == <<mcqChoice, mcqAnswer, mcqCorrect, mcqDone>>
nzVars == <<nzInput, nzCall, nzResult, nzAgain>>
sessionVars == <<objects, calls, edits>>
pageVars == <<mcqResponses, fillinResponses, fillinStatus, isSubmitted, showAnswers,
              mounted, localStorage, lastEvent, fillinGrades, summaries>>

----------------------------------------------------------------------------
(* Bounds of the model *)

\* longest string enumerated over Alphabet
MaxLen == 2

\* most questions per section of a quiz
MaxQuestions == 2

\* most calls of summarizeObjective in a session
MaxCalls == 3

\* most answers the caller changes in a session
MaxEdits == 3

\* highest index of a choice
MaxChoice == 3

----------------------------------------------------------------------------
(* JavaScript values *)

\* numbers are held in units of 1/Scale: three decimal places
Scale == 10 * 10 * 10

Undefined == [t |-> "undefined", s |-> <<>>, n |-> 0]
Null == [t |-> "null", s |-> <<>>, n |-> 0]
Str(s) == [t |-> "string", s |-> s, n |-> 0]
Num(n) == [t |-> "number", s |-> <<>>, n |-> n]
NaN == [t |-> "NaN", s |-> <<>>, n |-> 0]
Bool(b) == [t |-> "boolean", s |-> <<>>, n |-> IF b THEN 1 ELSE 0]
Obj(text) == [t |-> "object", s |-> text, n |-> 0]

\* typeof v === 'number'
IsNumber(v) == v.t \in {"number", "NaN"}

\* a ?? b
Nullish(a, b) == IF a.t \in {"undefined", "null"} THEN b ELSE a

\* the truthiness of a value
Truthy(v) ==
    CASE v.t = "string" -> v.s # <<>>
      [] v.t = "number" -> v.n # 0
      [] v.t = "boolean" -> v.n = 1
      [] v.t = "object" -> TRUE
      [] OTHER -> FALSE

Ret(v) == [thrown |-> FALSE, value |-> v, warned |-> FALSE]
Throw == [thrown |-> TRUE, value |-> FALSE, warned |-> FALSE]
NotCalled == [thrown |-> FALSE, value |-> FALSE, warned |-> FALSE]

Abs(x) == IF x < 0 THEN -x ELSE x

IsDigit(c) == c >= 48 /\ c <= 57

\* the decimal digits of a natural number
RECURSIVE Digits(_)
Digits(k) == IF k < 10 THEN <<48 + k>> ELSE Append(Digits(k \div 10), 48 + (k % 10))

\* the fraction digits of f/Scale, trailing zeros dropped (w is the place value)
RECURSIVE FracDigits(_, _)
FracDigits(f, w) ==
    IF f = 0 THEN <<>> ELSE <<48 + (f \div w)>> \o FracDigits(f % w, w \div 10)

\* String(v) of a number
NumberToString(v) ==
    IF v.t = "NaN" THEN <<78, 97, 78>>
    ELSE LET a == Abs(v.n)
             whole == Digits(a \div Scale)
             frac == FracDigits(a % Scale, Scale \div 10)
         IN (IF v.n < 0 THEN <<45>> ELSE <<>>) \o whole
               \o (IF frac = <<>> THEN <<>> ELSE <<46>> \o frac)

----------------------------------------------------------------------------
(* lib/normalize *)

FULLWIDTH_OFFSET == 65296 - 48

\* the punctuation table: code unit -> code unit
fullWidthMap ==
    (65292 :> 44) @@ (12290 :> 46) @@ (65307 :> 59) @@ (65306 :> 58) @@
    (65281 :> 33) @@ (65311 :> 63) @@ (65288 :> 40) @@ (65289 :> 41) @@
    (12304 :> 91) @@ (12305 :> 93) @@ (8220 :> 34) @@ (8221 :> 34) @@
    (8216 :> 39) @@ (8217 :> 39) @@ (12289 :> 44) @@ (12288 :> 32)

zhSynonymsOwn ==
    (<<21271, 20140, 26102, 38388>> :> <<117, 116, 99, 43, 56>>) @@
    (<<117, 116, 99, 43, 56>> :> <<117, 116, 99, 43, 56>>) @@
    (<<19996, 20843, 21306>> :> <<117, 116, 99, 43, 56>>)

\* property names every object literal inherits, with the text of the
\* inherited value: constructor, toString
ObjectPrototype ==
    (<<99, 111, 110, 115, 116, 114, 117, 99, 116, 111, 114>> :>
        <<102, 117, 110, 99, 116, 105, 111, 110, 32, 79, 98, 106, 101, 99, 116,
          40, 41, 32, 123, 32, 91, 110, 97, 116, 105, 118, 101, 32, 99, 111,
          100, 101, 93, 32, 125>>) @@
    (<<116, 111, 83, 116, 114, 105, 110, 103>> :>
        <<102, 117, 110, 99, 116, 105, 111, 110, 32, 116, 111, 83, 116, 114,
          105, 110, 103, 40, 41, 32, 123, 32, 91, 110, 97, 116, 105, 118, 101,
          32, 99, 111, 100, 101, 93, 32, 125>>)

\* zhSynonyms[key]: an own entry, an inherited property, or undefined
zhSynonyms(key) ==
    IF key \in DOMAIN zhSynonymsOwn THEN Str(zhSynonymsOwn[key])
    ELSE IF key \in DOMAIN ObjectPrototype THEN Obj(ObjectPrototype[key])
    ELSE Undefined

\* HalfWidthChar without the punctuation table
HalfWidthChar_noPunctuation(code) ==
    IF code >= 65296 /\ code <= 65305 THEN code - FULLWIDTH_OFFSET
    ELSE IF code >= 65313 /\ code <= 65338 THEN code - 65248
    ELSE IF code >= 65345 /\ code <= 65370 THEN code - 65248
    ELSE code

\* the callback of toHalfWidth's map
HalfWidthChar(code) ==
    IF code >= 65296 /\ code <= 65305 THEN code - FULLWIDTH_OFFSET
    ELSE IF code >= 65313 /\ code <= 65338 THEN code - 65248
    ELSE IF code >= 65345 /\ code <= 65370 THEN code - 65248
    ELSE IF code \in DOMAIN fullWidthMap THEN fullWidthMap[code]
    ELSE code

toHalfWidth(input) == [i \in 1..Len(input) |-> HalfWidthChar(input[i])]

\* the characters \s and trim() take for white space
IsWhitespace(c) ==
    \/ c \in {9, 10, 11, 12, 13, 32, 160, 5760, 8232, 8233, 8239, 8287, 12288, 65279}
    \/ (c >= 8192 /\ c <= 8202)

RECURSIVE TrimStart(_)
TrimStart(s) ==
    IF s # <<>> /\ IsWhitespace(Head(s)) THEN TrimStart(Tail(s)) ELSE s

RECURSIVE TrimEnd(_)
TrimEnd(s) ==
    IF s # <<>> /\ IsWhitespace(s[Len(s)]) THEN TrimEnd(SubSeq(s, 1, Len(s) - 1)) ELSE s

Trim(s) == TrimEnd(TrimStart(s))

\* replace(/\s+/g, ' ')
RECURSIVE CollapseWhitespace(_)
CollapseWhitespace(s) ==
    IF s = <<>> THEN <<>>
    ELSE IF IsWhitespace(Head(s))
         THEN <<32>> \o CollapseWhitespace(TrimStart(s))
         ELSE <<Head(s)>> \o CollapseWhitespace(Tail(s))

\* normalizeWhitespace without trim()
normalizeWhitespace_noTrim(input) == CollapseWhitespace(input)

normalizeWhitespace(input) == CollapseWhitespace(Trim(input))

\* toLowerCase on one code unit: Basic Latin, Latin-1, full-width Latin
LowerChar(c) ==
    IF c >= 65 /\ c <= 90 THEN c + 32
    ELSE IF c >= 192 /\ c <= 222 /\ c # 215 THEN c + 32
    ELSE IF c >= 65313 /\ c <= 65338 THEN c + 32
    ELSE c

ToLowerCase(s) == [i \in 1..Len(s) |-> LowerChar(s[i])]

\* s.split(' ')
RECURSIVE Split(_, _)
Split(s, cur) ==
    IF s = <<>> THEN <<cur>>
    ELSE IF Head(s) = 32 THEN <<cur>> \o Split(Tail(s), <<>>)
    ELSE Split(Tail(s), Append(cur, Head(s)))

\* words.join(' ')
RECURSIVE Join(_)
Join(words) ==
    IF words = <<>> THEN <<>>
    ELSE IF Len(words) = 1 THEN Head(words)
    ELSE Head(words) \o <<32>> \o Join(Tail(words))

\* the callback of normalizeText's map, with join's ToString of the value
UnifyWord(word) == Nullish(zhSynonyms(word), Str(word)).s

normalizeText(value, lowercase) ==
    LET halfWidth == toHalfWidth(value)
        collapsed == normalizeWhitespace(halfWidth)
        lower == IF lowercase THEN ToLowerCase(collapsed) ELSE collapsed
        words == Split(lower, <<>>)
    IN Join([i \in 1..Len(words) |-> UnifyWord(words[i])])

\* the character at position k, or 0 past the end of the string
At(s, k) == IF k >= 1 /\ k <= Len(s) THEN s[k] ELSE 0

\* parseInt(digits, 10) on a run of decimal digits
RECURSIVE ParseInt(_)
ParseInt(ds) ==
    IF ds = <<>> THEN 0 ELSE 10 * ParseInt(SubSeq(ds, 1, Len(ds) - 1)) + (ds[Len(ds)] - 48)

pad(value) ==
    LET str == Digits(value) IN IF Len(str) < 2 THEN <<48>> \o str ELSE str

\* the separators [-/年.] and [-/月.] of the date pattern
YearSeparators == {45, 47, 24180, 46}
MonthSeparators == {45, 47, 26376, 46}

\* the match of /(\d{4})[-/年.](\d{1,2})[-/月.](\d{1,2})/ that starts at i:
\* the positions of the month and of the day and their lengths, greedy first
DateMatchAt(s, i) ==
    LET year == \A k \in i..(i + 3) : IsDigit(At(s, k))
        sep == At(s, i + 4) \in YearSeparators
        two == IsDigit(At(s, i + 5)) /\ IsDigit(At(s, i + 6))
                 /\ At(s, i + 7) \in MonthSeparators /\ IsDigit(At(s, i + 8))
        one == IsDigit(At(s, i + 5)) /\ At(s, i + 6) \in MonthSeparators
                 /\ IsDigit(At(s, i + 7))
        mlen == IF two THEN 2 ELSE 1
        dpos == i + 5 + mlen + 1
        dlen == IF IsDigit(At(s, dpos + 1)) THEN 2 ELSE 1
    IN IF year /\ sep /\ (two \/ one)
       THEN [ok |-> TRUE,
             year |-> SubSeq(s, i, i + 3),
             month |-> SubSeq(s, i + 5, i + 4 + mlen),
             day |-> SubSeq(s, dpos, dpos + dlen - 1)]
       ELSE [ok |-> FALSE, year |-> <<>>, month |-> <<>>, day |-> <<>>]

\* parseDateString that rejects a month outside 1..12 or a day outside 1..31
parseDateString_calendarChecked(input) ==
    LET normalized == normalizeText(input, FALSE)
        starts == {i \in 1..Len(normalized) : DateMatchAt(normalized, i).ok}
    IN IF starts = {} THEN Null
       ELSE LET first == CHOOSE i \in starts : \A j \in starts : i <= j
                isoMatch == DateMatchAt(normalized, first)
                y == ParseInt(isoMatch.year)
                m == ParseInt(isoMatch.month)
                d == ParseInt(isoMatch.day)
            IN IF m \notin 1..12 \/ d \notin 1..31 THEN Null
               ELSE Str(Digits(y) \o <<45>> \o pad(m) \o <<45>> \o pad(d))

parseDateString(input) ==
    LET normalized == normalizeText(input, FALSE)
        starts == {i \in 1..Len(normalized) : DateMatchAt(normalized, i).ok}
    IN IF starts = {} THEN Null
       ELSE LET first == CHOOSE i \in starts : \A j \in starts : i <= j
                isoMatch == DateMatchAt(normalized, first)
                y == ParseInt(isoMatch.year)
                m == ParseInt(isoMatch.month)
                d == ParseInt(isoMatch.day)
            IN Str(Digits(y) \o <<45>> \o pad(m) \o <<45>> \o pad(d))

\* replace(/,/g, '')
RemoveCommas(s) == SelectSeq(s, LAMBDA c : c # 44)

\* Number(str) for decimal literals: white space is trimmed, the empty string
\* is 0, then an optional sign, digits, an optional point and fraction.  The
\* strings of the model carry at most three fraction digits, no exponent and
\* no radix prefix.
ToNumber(str) ==
    LET t == Trim(str)
        signed == t # <<>> /\ Head(t) \in {43, 45}
        body == IF signed THEN Tail(t) ELSE t
        points == {i \in 1..Len(body) : body[i] = 46}
        cut == IF points = {} THEN Len(body) + 1
               ELSE CHOOSE i \in points : \A j \in points : i <= j
        whole == SubSeq(body, 1, cut - 1)
        frac == SubSeq(body, cut + 1, Len(body))
        wellFormed == /\ Cardinality(points) <= 1
                      /\ \A i \in 1..Len(whole) : IsDigit(whole[i])
                      /\ \A i \in 1..Len(frac) : IsDigit(frac[i])
                      /\ Len(whole) + Len(frac) >= 1
        thousandths == ParseInt(SubSeq(frac \o <<48, 48, 48>>, 1, 3))
        magnitude == ParseInt(whole) * Scale + thousandths
    IN IF t = <<>> THEN Num(0)
       ELSE IF ~wellFormed THEN NaN
       ELSE Num(IF signed /\ Head(t) = 45 THEN -magnitude ELSE magnitude)

\* normalizeNumberInput that leaves the commas in
normalizeNumberInput_keepCommas(input) ==
    LET normalized == normalizeText(input, TRUE)
    IN IF normalized = <<>> THEN Null
       ELSE LET numeric == ToNumber(normalized)
            IN IF numeric.t = "number" THEN numeric ELSE Null

normalizeNumberInput(input) ==
    LET normalized == normalizeText(input, TRUE)
    IN IF normalized = <<>> THEN Null
       ELSE LET numeric == ToNumber(RemoveCommas(normalized))
            IN IF numeric.t = "number" THEN numeric ELSE Null

\* equalsText(input, expected, options): options.caseInsensitive and
\* options.normalizeZh are JavaScript values (undefined when absent).
\* normalizeText on a value that is no string raises a TypeError (split).
equalsText(input, expected, caseInsensitive, normalizeZh) ==
    LET lowercase == Nullish(caseInsensitive, Bool(TRUE)) # Bool(FALSE)
        normalizedInput == normalizeText(input, lowercase)
        normalizedExpected ==
            IF Truthy(normalizeZh) THEN Nullish(zhSynonyms(expected), Str(expected))
            ELSE Str(expected)
    IN IF normalizedExpected.t # "string" THEN Throw
       ELSE Ret(normalizedInput = normalizeText(normalizedExpected.s, lowercase))

----------------------------------------------------------------------------
(* new RegExp(pattern) and regex.test(value)                               *)
(*                                                                         *)
(* The patterns of the model are written with literal characters and       *)
(* ^ $ . * + ? ( ) | ; they hold no class and no escape.  A pattern denotes *)
(* the set of pairs <<i, j>> of positions 0..Len(s) such that it matches   *)
(* s from i to j; test() is true iff the set is not empty.                 *)

Positions(s) == 0..Len(s)

Identity(s) == {<<i, i>> : i \in Positions(s)}

Compose(R, S, s) ==
    {<<a, c>> \in Positions(s) \X Positions(s) :
        \E b \in Positions(s) : <<a, b>> \in R /\ <<b, c>> \in S}

RECURSIVE Closure(_, _, _)
Closure(R, acc, s) ==
    LET next == acc \cup Compose(acc, R, s)
    IN IF next = acc THEN acc ELSE Closure(R, next, s)

\* R* : zero or more repetitions
Star(R, s) == Closure(R, Identity(s), s)

\* the characters . does not match
LineTerminators == {10, 13, 8232, 8233}

\* one pattern character that stands for itself
Literal(c, s) == {<<i - 1, i>> : i \in {k \in 1..Len(s) : s[k] = c}}

AnyChar(s) == {<<i - 1, i>> : i \in {k \in 1..Len(s) : s[k] \notin LineTerminators}}

SyntaxError == [ok |-> FALSE, rel |-> {}, pos |-> 0]

\* the quantifier, if any, that follows an atom ending before position i
Quantified(p, s, rel, i) ==
    LET q == At(p, i)
        lazy == IF At(p, i + 1) = 63 THEN 1 ELSE 0
    IN IF q = 42 THEN [ok |-> TRUE, rel |-> Star(rel, s), pos |-> i + 1 + lazy]
       ELSE IF q = 43
            THEN [ok |-> TRUE, rel |-> Compose(rel, Star(rel, s), s), pos |-> i + 1 + lazy]
       ELSE IF q = 63
            THEN [ok |-> TRUE, rel |-> rel \cup Identity(s), pos |-> i + 1 + lazy]
       ELSE [ok |-> TRUE, rel |-> rel, pos |-> i]

RECURSIVE ParseDisjunction(_, _, _)
RECURSIVE ParseAlternative(_, _, _)
RECURSIVE ParseTerm(_, _, _)

\* Disjunction ::= Alternative ( | Alternative )*
ParseDisjunction(p, s, i) ==
    LET a == ParseAlternative(p, s, i)
    IN IF ~a.ok THEN a
       ELSE IF At(p, a.pos) = 124
            THEN LET d == ParseDisjunction(p, s, a.pos + 1)
                 IN IF ~d.ok THEN d
                    ELSE [ok |-> TRUE, rel |-> a.rel \cup d.rel, pos |-> d.pos]
       ELSE a

\* Alternative ::= Term*
ParseAlternative(p, s, i) ==
    IF i > Len(p) \/ p[i] \in {124, 41}
    THEN [ok |-> TRUE, rel |-> Identity(s), pos |-> i]
    ELSE LET t == ParseTerm(p, s, i)
         IN IF ~t.ok THEN t
            ELSE LET r == ParseAlternative(p, s, t.pos)
                 IN IF ~r.ok THEN r
                    ELSE [ok |-> TRUE, rel |-> Compose(t.rel, r.rel, s), pos |-> r.pos]

\* Term ::= ^ | $ | Atom Quantifier? ; a quantifier with nothing to repeat
\* and a group that is not closed are syntax errors
ParseTerm(p, s, i) ==
    LET c == p[i]
    IN IF c = 94 THEN [ok |-> TRUE, rel |-> {<<0, 0>>}, pos |-> i + 1]
       ELSE IF c = 36 THEN [ok |-> TRUE, rel |-> {<<Len(s), Len(s)>>}, pos |-> i + 1]
       ELSE IF c \in {42, 43, 63} THEN SyntaxError
       ELSE IF c = 40
            THEN LET d == ParseDisjunction(p, s, i + 1)
                 IN IF ~d.ok \/ At(p, d.pos) # 41 THEN SyntaxError
                    ELSE Quantified(p, s, d.rel, d.pos + 1)
       ELSE IF c = 46 THEN Quantified(p, s, AnyChar(s), i + 1)
       ELSE Quantified(p, s, Literal(c, s), i + 1)

\* the whole pattern against s; an unmatched ) is a syntax error
ParsePattern(p, s) ==
    LET d == ParseDisjunction(p, s, 1)
    IN IF d.ok /\ d.pos = Len(p) + 1 THEN d ELSE SyntaxError

\* whether new RegExp(pattern) raises a SyntaxError
RegExpCompiles(pattern) == ParsePattern(pattern, <<>>).ok

\* new RegExp(pattern).test(value), for a pattern that compiles
RegExpTest(pattern, value) == ParsePattern(pattern, value).rel # {}

----------------------------------------------------------------------------
(* lib/grading *)

\* a rule of the answer document; a field the rule does not carry is Undefined
\* and accept is [t |-> "undefined" | "array", items |-> the candidates]
NoArray == [t |-> "undefined", items |-> <<>>]
Array(items) == [t |-> "array", items |-> items]

TextRule(answer, accept, caseInsensitive, normalizeZh) ==
    [mode |-> "text", answer |-> answer, accept |-> accept, pattern |-> <<>>,
     tolerance |-> Undefined, caseInsensitive |-> caseInsensitive,
     normalizeZh |-> normalizeZh]

RegexRule(pattern) ==
    [mode |-> "regex", answer |-> Undefined, accept |-> NoArray, pattern |-> pattern,
     tolerance |-> Undefined, caseInsensitive |-> Undefined, normalizeZh |-> Undefined]

NumberRule(answer, tolerance) ==
    [mode |-> "number", answer |-> answer, accept |-> NoArray, pattern |-> <<>>,
     tolerance |-> tolerance, caseInsensitive |-> Undefined, normalizeZh |-> Undefined]

DateRule(answer, accept) ==
    [mode |-> "date", answer |-> answer, accept |-> accept, pattern |-> <<>>,
     tolerance |-> Undefined, caseInsensitive |-> Undefined, normalizeZh |-> Undefined]

\* gradeMcq that takes every falsy choice, the index 0 among them, for absent
gradeMcq_falsyAbsent(userChoiceIdx, answerIdx) ==
    IF ~Truthy(userChoiceIdx) THEN FALSE
    ELSE userChoiceIdx.t = "number" /\ answerIdx.t = "number"
           /\ userChoiceIdx.n = answerIdx.n

\* Number(v) === Number(w) holds for two numbers of the same value; NaN,
\* which Number(undefined) is too, equals nothing
gradeMcq(userChoiceIdx, answerIdx) ==
    IF userChoiceIdx.t \in {"null", "undefined"} THEN FALSE
    ELSE userChoiceIdx.t = "number" /\ answerIdx.t = "number"
           /\ userChoiceIdx.n = answerIdx.n

\* rule.accept.some(candidate => equalsText(value, candidate, ...)): the
\* candidates in order, up to the first that holds or raises
RECURSIVE SomeEqualsText(_, _, _, _)
SomeEqualsText(value, candidates, caseInsensitive, normalizeZh) ==
    IF candidates = <<>> THEN Ret(FALSE)
    ELSE LET r == equalsText(value, Head(candidates), caseInsensitive, normalizeZh)
         IN IF r.thrown \/ r.value THEN r
            ELSE SomeEqualsText(value, Tail(candidates), caseInsensitive, normalizeZh)

GradeText(value, rule) ==
    LET caseInsensitive == Nullish(rule.caseInsensitive, Bool(TRUE))
        normalizeZh == Nullish(rule.normalizeZh, Bool(FALSE))
    IN IF rule.accept.t = "array" /\ Len(rule.accept.items) > 0
       THEN SomeEqualsText(value, rule.accept.items, caseInsensitive, normalizeZh)
       ELSE IF Truthy(rule.answer)
            THEN equalsText(value, rule.answer.s, caseInsensitive, normalizeZh)
       ELSE Ret(FALSE)

\* GradeRegex with the value normalized before the test
GradeRegex_normalized(value, rule) ==
    IF RegExpCompiles(rule.pattern)
    THEN Ret(RegExpTest(rule.pattern, normalizeText(value, TRUE)))
    ELSE [thrown |-> FALSE, value |-> FALSE, warned |-> TRUE]

\* GradeRegex without the try block
GradeRegex_noTry(value, rule) ==
    IF RegExpCompiles(rule.pattern) THEN Ret(RegExpTest(rule.pattern, value)) ELSE Throw

\* the try block: a pattern that does not compile is caught, warned about
GradeRegex(value, rule) ==
    IF RegExpCompiles(rule.pattern)
    THEN Ret(RegExpTest(rule.pattern, value))
    ELSE [thrown |-> FALSE, value |-> FALSE, warned |-> TRUE]

\* x <= y + Number.EPSILON, x and y in units of 1/Scale: the epsilon is
\* positive and smaller than the unit, here half of it
LeqPlusEpsilon(x, y) == 2 * x <= 2 * y + 1

\* WithinTolerance without Math.abs
WithinTolerance_noAbs(userNumber, answer, tolerance) ==
    /\ userNumber.t = "number" /\ answer.t = "number" /\ tolerance.t = "number"
    /\ LeqPlusEpsilon(userNumber.n - answer.n, tolerance.n)

\* Math.abs(userNumber - rule.answer) <= tolerance + Number.EPSILON
WithinTolerance(userNumber, answer, tolerance) ==
    /\ userNumber.t = "number" /\ answer.t = "number" /\ tolerance.t = "number"
    /\ LeqPlusEpsilon(Abs(userNumber.n - answer.n), tolerance.n)

GradeNumber(userInput, value, rule) ==
    LET userNumber == IF IsNumber(userInput) THEN userInput ELSE normalizeNumberInput(value)
    IN IF userNumber.t = "null" THEN Ret(FALSE)
       ELSE Ret(WithinTolerance(userNumber, rule.answer, Nullish(rule.tolerance, Num(0))))

\* [rule.answer, ...(rule.accept ?? [])].filter(Boolean)
AcceptedDates(rule) ==
    LET all == <<rule.answer>> \o [i \in 1..Len(rule.accept.items) |-> Str(rule.accept.items[i])]
        kept == SelectSeq(all, Truthy)
    IN [i \in 1..Len(kept) |-> kept[i].s]

\* GradeDate with the candidates compared as written
GradeDate_rawCandidate(value, rule) ==
    LET accepted == AcceptedDates(rule)
        normalizedUser == parseDateString(value)
    IN IF ~Truthy(normalizedUser) THEN Ret(FALSE)
       ELSE IF Len(accepted) = 0 THEN Ret(FALSE)
       ELSE Ret(\E i \in 1..Len(accepted) : Str(accepted[i]) = normalizedUser)

GradeDate(value, rule) ==
    LET accepted == AcceptedDates(rule)
        normalizedUser == parseDateString(value)
    IN IF ~Truthy(normalizedUser) THEN Ret(FALSE)
       ELSE IF Len(accepted) = 0 THEN Ret(FALSE)
       ELSE Ret(\E i \in 1..Len(accepted) : parseDateString(accepted[i]) = normalizedUser)

\* gradeFillin that grades a rule of an unknown mode as a text rule
gradeFillin_defaultText(userInput, rule) ==
    IF userInput.t \in {"null", "undefined"} \/ userInput = Str(<<>>) THEN Ret(FALSE)
    ELSE LET value == IF IsNumber(userInput) THEN NumberToString(userInput) ELSE userInput.s
         IN CASE rule.mode = "regex" -> GradeRegex(value, rule)
              [] rule.mode = "number" -> GradeNumber(userInput, value, rule)
              [] rule.mode = "date" -> GradeDate(value, rule)
              [] OTHER -> GradeText(value, rule)

\* gradeFillin without the test for the empty string
gradeFillin_noEmptyCheck(userInput, rule) ==
    IF userInput.t \in {"null", "undefined"} THEN Ret(FALSE)
    ELSE LET value == IF IsNumber(userInput) THEN NumberToString(userInput) ELSE userInput.s
         IN CASE rule.mode = "text" -> GradeText(value, rule)
              [] rule.mode = "regex" -> GradeRegex(value, rule)
              [] rule.mode = "number" -> GradeNumber(userInput, value, rule)
              [] rule.mode = "date" -> GradeDate(value, rule)
              [] OTHER -> Ret(FALSE)

gradeFillin(userInput, rule) ==
    IF userInput.t \in {"null", "undefined"} \/ userInput = Str(<<>>) THEN Ret(FALSE)
    ELSE LET value == IF IsNumber(userInput) THEN NumberToString(userInput) ELSE userInput.s
         IN CASE rule.mode = "text" -> GradeText(value, rule)
              [] rule.mode = "regex" -> GradeRegex(value, rule)
              [] rule.mode = "number" -> GradeNumber(userInput, value, rule)
              [] rule.mode = "date" -> GradeDate(value, rule)
              [] OTHER -> Ret(FALSE)

\* answers.fillins[id] of an id the answer document does not hold
NoRule ==
    [mode |-> "undefined", answer |-> Undefined, accept |-> NoArray, pattern |-> <<>>,
     tolerance |-> Undefined, caseInsensitive |-> Undefined, normalizeZh |-> Undefined]

\* getScore with a default weight of 0
getScore_defaultZero(question) == Nullish(question.score, Num(0)).n

getScore(question) == Nullish(question.score, Num(Scale)).n

EmptySection == [correctIds |-> <<>>, incorrectIds |-> <<>>, score |-> 0, total |-> 0]

\* McqStep that puts an id at the front of its list
McqStep_unshift(acc, item, mcqAnswers, mcqUser) ==
    LET correct == gradeMcq(mcqUser[item.id], mcqAnswers[item.id])
        score == getScore(item)
    IN IF correct
       THEN [acc EXCEPT !.total = @ + score, !.score = @ + score,
                        !.correctIds = <<item.id>> \o @]
       ELSE IF mcqUser[item.id].t \notin {"null", "undefined"}
            THEN [acc EXCEPT !.total = @ + score, !.incorrectIds = <<item.id>> \o @]
       ELSE [acc EXCEPT !.total = @ + score]

\* the callback of quiz.mcq.reduce
McqStep(acc, item, mcqAnswers, mcqUser) ==
    LET correct == gradeMcq(mcqUser[item.id], mcqAnswers[item.id])
        score == getScore(item)
    IN IF correct
       THEN [acc EXCEPT !.total = @ + score, !.score = @ + score,
                        !.correctIds = Append(@, item.id)]
       ELSE IF mcqUser[item.id].t \notin {"null", "undefined"}
            THEN [acc EXCEPT !.total = @ + score, !.incorrectIds = Append(@, item.id)]
       ELSE [acc EXCEPT !.total = @ + score]

RECURSIVE McqReduce(_, _, _, _)
McqReduce(acc, items, mcqAnswers, mcqUser) ==
    IF items = <<>> THEN acc
    ELSE McqReduce(McqStep(acc, Head(items), mcqAnswers, mcqUser), Tail(items),
                   mcqAnswers, mcqUser)

\* FillinStep that lists every question that is not correct as incorrect
FillinStep_blankIncorrect(acc, item, user, correct) ==
    LET score == getScore(item)
    IN IF correct
       THEN [acc EXCEPT !.total = @ + score, !.score = @ + score,
                        !.correctIds = Append(@, item.id)]
       ELSE [acc EXCEPT !.total = @ + score, !.incorrectIds = Append(@, item.id)]

\* the callback of quiz.fillins.reduce, given the outcome of the grading
FillinStep(acc, item, user, correct) ==
    LET score == getScore(item)
    IN IF correct
       THEN [acc EXCEPT !.total = @ + score, !.score = @ + score,
                        !.correctIds = Append(@, item.id)]
       ELSE IF user.t \notin {"null", "undefined"} /\ user # Str(<<>>)
            THEN [acc EXCEPT !.total = @ + score, !.incorrectIds = Append(@, item.id)]
       ELSE [acc EXCEPT !.total = @ + score]

\* FillinCorrect that takes a question without a rule as correct
FillinCorrect_missingRuleCorrect(rule, user) ==
    IF rule # NoRule THEN gradeFillin(Nullish(user, Str(<<>>)), rule) ELSE Ret(TRUE)

\* rule ? gradeFillin(user ?? '', rule) : false
FillinCorrect(rule, user) ==
    IF rule # NoRule THEN gradeFillin(Nullish(user, Str(<<>>)), rule) ELSE Ret(FALSE)

\* quiz.fillins.reduce: an exception of gradeFillin ends the reduction
RECURSIVE FillinReduce(_, _, _, _)
RECURSIVE FillinReduceGraded(_, _, _, _, _)

\* the rest of one round of the reduction, the head of items being graded
FillinReduceGraded(acc, items, fillinRules, fillinUser, graded) ==
    IF graded.thrown THEN Throw
    ELSE FillinReduce(FillinStep(acc, Head(items), fillinUser[Head(items).id], graded.value),
                      Tail(items), fillinRules, fillinUser)

FillinReduce(acc, items, fillinRules, fillinUser) ==
    IF items = <<>> THEN Ret(acc)
    ELSE FillinReduceGraded(acc, items, fillinRules, fillinUser,
             FillinCorrect(fillinRules[Head(items).id], fillinUser[Head(items).id]))

\* SummaryOf with the score of the choice section for the total score
SummaryOf_mcqScoreOnly(mcqResult, fillinResult) ==
    IF fillinResult.thrown THEN Throw
    ELSE Ret([mcq |-> mcqResult,
              fillins |-> fillinResult.value,
              totalScore |-> mcqResult.score,
              totalPossible |-> mcqResult.total + fillinResult.value.total])

\* the object summarizeObjective returns, given the results of the two sections
SummaryOf(mcqResult, fillinResult) ==
    IF fillinResult.thrown THEN Throw
    ELSE Ret([mcq |-> mcqResult,
              fillins |-> fillinResult.value,
              totalScore |-> mcqResult.score + fillinResult.value.score,
              totalPossible |-> mcqResult.total + fillinResult.value.total])

summarizeObjective(q, a, mcqUser, fillinUser) ==
    SummaryOf(McqReduce(EmptySection, q.mcq, a.mcq, mcqUser),
              FillinReduce(EmptySection, q.fillins, a.fillins, fillinUser))

\* return summary.totalScore, given the outcome of summarizeObjective
TotalScoreOf(outcome) == IF outcome.thrown THEN Throw ELSE Ret(outcome.value.totalScore)

computeObjectiveScore(q, a, mcqUser, fillinUser) ==
    TotalScoreOf(summarizeObjective(q, a, mcqUser, fillinUser))

----------------------------------------------------------------------------
(* summarizeObjective on objects.  The initial value of each reduce is an   *)
(* object literal, its callback changes that object in place (+=, push),   *)
(* and the summary that is returned refers to the two objects.  heap is    *)
(* the sequence of the accumulator objects made so far; the address of an  *)
(* object is its position.                                                 *)

\* NewSection with one accumulator that is made once and used by every reduce
NewSection_shared(heap) ==
    [heap |-> IF heap = <<>> THEN <<EmptySection>> ELSE heap, addr |-> 1]

\* { correctIds: [], incorrectIds: [], score: 0, total: 0 }: a new object
NewSection(heap) == [heap |-> Append(heap, EmptySection), addr |-> Len(heap) + 1]

\* quiz.mcq.reduce on the accumulator section.addr
McqPass(section, q, a, mcqUser) ==
    [heap |-> [section.heap EXCEPT ![section.addr] = McqReduce(@, q.mcq, a.mcq, mcqUser)],
     mcq |-> section.addr]

\* the state before quiz.fillins.reduce: its accumulator is made
FillinStart(mcqPass, section) ==
    [heap |-> section.heap, mcq |-> mcqPass.mcq, fillins |-> section.addr]

\* the return statement, given the outcome of quiz.fillins.reduce; the
\* objects of a call that raises are not reachable afterwards
SummaryRefs(heap, start, fillinResult) ==
    IF fillinResult.thrown THEN [heap |-> heap, outcome |-> Throw]
    ELSE [heap |-> [start.heap EXCEPT ![start.fillins] = fillinResult.value],
          outcome |-> Ret([mcq |-> start.mcq,
                           fillins |-> start.fillins,
                           totalScore |-> start.heap[start.mcq].score + fillinResult.value.score,
                           totalPossible |-> start.heap[start.mcq].total + fillinResult.value.total])]

FillinPass(heap, start, q, a, fillinUser) ==
    SummaryRefs(heap, start,
                FillinReduce(start.heap[start.fillins], q.fillins, a.fillins, fillinUser))

AfterMcqPass(heap, mcqPass, q, a, fillinUser) ==
    FillinPass(heap, FillinStart(mcqPass, NewSection(mcqPass.heap)), q, a, fillinUser)

\* the call: the heap afterwards, the outcome, and the four arguments as
\* the call leaves them (the function holds no assignment to any of them)
summarizeObjectiveOnHeap(heap, args) ==
    [after |-> args,
     effect |-> AfterMcqPass(heap, McqPass(NewSection(heap), args.quiz, args.answers, args.userMcq),
                             args.quiz, args.answers, args.userFillins)]

\* the summary a reference stands for
Deref(heap, refs) ==
    [mcq |-> heap[refs.mcq], fillins |-> heap[refs.fillins],
     totalScore |-> refs.totalScore, totalPossible |-> refs.totalPossible]

----------------------------------------------------------------------------
(* The inputs the calls are made with *)

\* a, A, full-width A, space, ideographic space, 1, comma
Alphabet == {97, 65, 65313, 32, 12288, 49, 44}

RECURSIVE StringsUpTo(_)
StringsUpTo(k) ==
    IF k = 0 THEN {<<>>}
    ELSE LET shorter == StringsUpTo(k - 1)
         IN shorter \cup {Append(s, c) : s \in {x \in shorter : Len(x) = k - 1}, c \in Alphabet}

\* synonym phrases, inherited property names, dates, numbers
Phrases ==
    { <<21271, 20140, 26102, 38388>>, <<117, 116, 99, 43, 56>>, <<85, 84, 67, 43, 56>>, <<19996, 20843, 21306>>, <<99, 111, 110, 115, 116, 114, 117, 99, 116, 111, 114>>, <<116, 111, 83, 116, 114, 105, 110, 103>>,
      <<50, 48, 51, 52, 24180, 50, 26376, 49, 57, 26085>>, <<50, 48, 51, 52, 45, 48, 50, 45, 49, 57>>, <<50, 48, 51, 52, 47, 50, 47, 49, 57>>, <<50, 48, 51, 52, 45, 49, 51, 45, 51, 50>>, <<110, 111, 32, 100, 97, 116, 101, 32, 104, 101, 114, 101>>,
      <<50, 57, 46, 53, 51, 49>>, <<50, 57, 46, 54>>, <<49, 44, 48, 48, 48>>, <<65297, 65292, 65296, 65296, 65296>>, <<45, 49>>, <<44>>, <<97, 98, 99, 40>>, <<20892, 21382, 27491, 26376, 21021, 19968>>,
      <<50, 48, 51, 52, 47, 49, 51, 47, 51, 50>>, <<50, 48, 51, 52, 46, 48, 46, 48, 48>>, <<50, 48, 51, 52, 24180, 48, 48, 26376, 48, 26085>> }

UserStrings == StringsUpTo(MaxLen) \cup Phrases

UserInputs ==
    {Str(s) : s \in UserStrings}
        \cup {Null, Undefined, NaN, Num(0), Num(Scale), Num(-Scale), Num(29531)}

TextAnswers == {Undefined, Str(<<>>), Str(<<97>>), Str(<<117, 116, 99, 43, 56>>), Str(<<99, 111, 110, 115, 116, 114, 117, 99, 116, 111, 114>>)}

TextAccepts ==
    {NoArray, Array(<<>>), Array(<<<<65>>, <<97, 32, 97>>>>), Array(<<<<99, 111, 110, 115, 116, 114, 117, 99, 116, 111, 114>>, <<97>>>>),
     Array(<<<<20892, 21382, 27491, 26376, 21021, 19968>>, <<21271, 20140, 26102, 38388>>>>)}

\* <<caseInsensitive, normalizeZh>>
TextOptions == {<<Undefined, Undefined>>, <<Bool(FALSE), Undefined>>, <<Undefined, Bool(TRUE)>>}

TextRules ==
    {TextRule(answer, accept, o[1], o[2]) :
        answer \in TextAnswers, accept \in {NoArray, Array(<<>>)}, o \in TextOptions}
    \cup
    {TextRule(answer, accept, o[1], o[2]) :
        answer \in {Undefined, Str(<<97>>)}, accept \in TextAccepts, o \in TextOptions}

Patterns ==
    { <<>>, <<97>>, <<65>>, <<94, 97, 36>>, <<94, 36>>, <<97, 42>>, <<94, 32, 97, 36>>, <<94, 40, 97, 124, 49, 41, 43, 36>>, <<94, 46, 44, 36>>, <<94, 50, 57, 46, 53, 51, 49, 36>>,
      <<40>>, <<41>>, <<42>>, <<97, 42, 42>>, <<40, 97>> }

RegexRules == {RegexRule(pattern) : pattern \in Patterns}

NumberRules ==
    {NumberRule(answer, tolerance) :
        answer \in {Num(0), Num(Scale), Num(29531), Num(1000 * Scale)},
        tolerance \in {Undefined, Num(0), Num(2), Num(Scale), Num(-Scale)}}

DateAnswers ==
    {Undefined, Str(<<>>), Str(<<50, 48, 51, 52, 45, 48, 50, 45, 49, 57>>), Str(<<50, 48, 51, 52, 24180, 50, 26376, 49, 57, 26085>>), Str(<<110, 111, 32, 100, 97, 116, 101, 32, 104, 101, 114, 101>>)}

DateAccepts ==
    {NoArray, Array(<<>>), Array(<<<<110, 111, 32, 100, 97, 116, 101, 32, 104, 101, 114, 101>>, <<50, 48, 51, 52, 47, 50, 47, 49, 57>>>>),
     Array(<<<<>>, <<50, 48, 51, 52, 45, 49, 51, 45, 51, 50>>>>),
     Array(<<<<50, 48, 51, 52, 45, 48, 48, 45, 48>>>>)}

DateRules == {DateRule(answer, accept) : answer \in DateAnswers, accept \in DateAccepts}

\* rules whose mode is none of the four
OtherRules ==
    {[NoRule EXCEPT !.mode = "essay"],
     [TextRule(Str(<<97>>), NoArray, Undefined, Undefined) EXCEPT !.mode = "exact"]}

Rules == TextRules \cup RegexRules \cup NumberRules \cup DateRules \cup OtherRules

----------------------------------------------------------------------------
(* The calls *)

GfIdle == gfInput = Undefined /\ gfRule = NoRule /\ gfResult = NotCalled /\ gfDone = FALSE
EqIdle == eqArgs = <<>> /\ eqResult = NotCalled /\ eqDone = FALSE
SumIdle ==
    /\ quiz = <<>> /\ answers = <<>> /\ userMcq = <<>> /\ userFillins = <<>>
    /\ summary = NotCalled /\ sumDone = FALSE
    /\ objectiveScore = NotCalled /\ scoreDone = FALSE
McqIdle ==
    mcqChoice = Undefined /\ mcqAnswer = Undefined /\ mcqCorrect = FALSE /\ mcqDone = FALSE

\* no function of lib/normalize has been called
NoCall == [fn |-> "", lowercase |-> Undefined]
NzIdle == nzInput = <<>> /\ nzCall = NoCall /\ nzResult = Undefined /\ nzAgain = Undefined

\* no session is under way
SessionIdle == objects = <<>> /\ calls = <<>> /\ edits = 0

\* no page is open
PageIdle ==
    /\ mcqResponses = <<>> /\ fillinResponses = <<>> /\ fillinStatus = <<>>
    /\ isSubmitted = Undefined /\ showAnswers = Undefined
    /\ mounted = FALSE /\ localStorage = <<>> /\ lastEvent = ""
    /\ fillinGrades = <<>> /\ summaries = <<>>

\* the calls of the other specifications are not made
OthersIdle(family) ==
    /\ family = "gradeFillin" \/ GfIdle
    /\ family = "equalsText" \/ EqIdle
    /\ family = "summarizeObjective" \/ SumIdle
    /\ family = "gradeMcq" \/ McqIdle
    /\ family = "normalize" \/ NzIdle
    /\ SessionIdle
    /\ PageIdle

\* gradeFillin(userInput, rule)
GradeInit ==
    /\ gfInput \in UserInputs
    /\ gfRule \in Rules
    /\ gfResult = NotCalled
    /\ gfDone = FALSE
    /\ OthersIdle("gradeFillin")

CallGradeFillin ==
    /\ ~gfDone
    /\ gfResult' = gradeFillin(gfInput, gfRule)
    /\ gfDone' = TRUE
    /\ UNCHANGED <<gfInput, gfRule, eqVars, sumVars, mcqVars, nzVars, sessionVars, pageVars>>

GradeNext == CallGradeFillin

SpecGrade == GradeInit /\ [][GradeNext]_vars

\* equalsText(input, expected, {caseInsensitive, normalizeZh})
EqInit ==
    /\ eqArgs \in [input : UserStrings \cup {<<67, 111, 110, 115, 116, 114, 117, 99, 116, 111, 114>>}, expected : Phrases \cup {<<97>>, <<65>>},
                   caseInsensitive : {Undefined, Bool(TRUE), Bool(FALSE)},
                   normalizeZh : {Undefined, Bool(TRUE), Bool(FALSE)}]
    /\ eqResult = NotCalled
    /\ eqDone = FALSE
    /\ OthersIdle("equalsText")

CallEqualsText ==
    /\ ~eqDone
    /\ eqResult' = equalsText(eqArgs.input, eqArgs.expected,
                              eqArgs.caseInsensitive, eqArgs.normalizeZh)
    /\ eqDone' = TRUE
    /\ UNCHANGED <<eqArgs, gfVars, sumVars, mcqVars, nzVars, sessionVars, pageVars>>

EqNext == CallEqualsText

SpecEq == EqInit /\ [][EqNext]_vars

\* gradeMcq(userChoiceIdx, answerIdx): the indices 0..MaxChoice, a fraction,
\* a negative number, NaN, and the absent values
ChoiceIndices == {Num(k * Scale) : k \in 0..MaxChoice}

McqUsers == ChoiceIndices \cup {Null, Undefined, NaN, Num(1), Num(-Scale)}

McqAnswers == ChoiceIndices \cup {Undefined, NaN, Num(1)}

McqInit ==
    /\ mcqChoice \in McqUsers
    /\ mcqAnswer \in McqAnswers
    /\ mcqCorrect = FALSE
    /\ mcqDone = FALSE
    /\ OthersIdle("gradeMcq")

CallGradeMcq ==
    /\ ~mcqDone
    /\ mcqCorrect' = gradeMcq(mcqChoice, mcqAnswer)
    /\ mcqDone' = TRUE
    /\ UNCHANGED <<mcqChoice, mcqAnswer, gfVars, eqVars, sumVars, nzVars, sessionVars, pageVars>>

McqNext == CallGradeMcq

SpecMcq == McqInit /\ [][McqNext]_vars

\* the strings the functions of lib/normalize are called with

RECURSIVE StringsOver(_, _)
StringsOver(alphabet, k) ==
    IF k = 0 THEN {<<>>}
    ELSE LET shorter == StringsOver(alphabet, k - 1)
         IN shorter \cup {Append(x, c) : x \in {y \in shorter : Len(y) = k - 1}, c \in alphabet}

\* the characters toHalfWidth maps: full-width digits, full-width upper and
\* lower case letters, the keys of fullWidthMap
FullWidthChars ==
    (65296..65305) \cup (65313..65338) \cup (65345..65370) \cup DOMAIN fullWidthMap

\* characters next to the mapped ranges, ASCII characters, other punctuation
\* of the same blocks, the two halves of a surrogate pair
NearbyChars ==
    {65295, 65312, 65339, 65344, 65371, 65287, 65291, 12291, 8218, 8222,
     48, 57, 65, 97, 44, 32, 55357, 56832}

\* one character each, and the strings over a few of them
WidthStrings ==
    {<<c>> : c \in FullWidthChars \cup NearbyChars}
        \cup StringsOver({65296, 65338, 65292, 12288, 97, 65339}, MaxLen)

\* space, tab, ideographic space, a letter, the zero-width space (which is
\* no white space)
WhitespaceAlphabet == {32, 9, 12288, 97, 8203}

\* characters around the white space of the language: NEL, the Mongolian
\* vowel separator, the zero-width space and joiner, the word joiner
NearlyWhitespace == {133, 6158, 8203, 8204, 8288}

WhitespaceChars ==
    {9, 10, 11, 12, 13, 32, 160, 5760, 8232, 8233, 8239, 8287, 12288, 65279} \cup (8192..8202)

WhitespaceStrings ==
    StringsOver(WhitespaceAlphabet, MaxLen + 2)
        \cup {<<97, c, c, 98>> : c \in WhitespaceChars \cup NearlyWhitespace}
        \cup {<<c, 97, 32, c>> : c \in WhitespaceChars \cup NearlyWhitespace}
        \cup {<<32, 97, 32, 32, 32, 98, 32>>}

\* dates, synonym phrases inside longer strings, numbers
NormalizePhrases ==
    { <<48, 48, 51, 52, 45, 49, 45, 49>>,
      <<50, 48, 51, 52, 53, 45, 49, 45, 49>>,
      <<50, 48, 51, 52, 46, 50, 46, 49, 57>>,
      <<120, 50, 48, 51, 52, 45, 50, 45, 49, 57, 121>>,
      <<50, 48, 51, 52, 45, 50, 45, 49, 57, 32, 50, 48, 51, 53, 45, 51, 45, 50, 48>>,
      <<49, 50, 48, 51, 52, 45, 49, 45, 49, 50, 51>>,
      <<65298, 65296, 65299, 65300, 24180, 65298, 26376, 65297, 65305, 26085>>,
      <<50, 48, 51, 52, 45, 49>>,
      <<50, 48, 51, 52, 24180, 50, 46, 49, 57>>,
      <<50, 48, 51, 52, 32, 45, 50, 45, 49, 57>>,
      <<116, 111, 83, 116, 114, 105, 110, 103, 32, 50, 48, 51, 52, 47, 49, 50, 47, 51>>,
      <<97, 32, 21271, 20140, 26102, 38388>>,
      <<21271, 20140, 26102, 38388, 32, 19996, 20843, 21306>>,
      <<120, 117, 116, 99, 43, 56>>,
      <<21271, 20140, 26102, 38388, 120>>,
      <<85, 84, 67, 43, 56, 32, 97>>,
      <<97, 32, 99, 111, 110, 115, 116, 114, 117, 99, 116, 111, 114>>,
      <<67, 111, 110, 115, 116, 114, 117, 99, 116, 111, 114>>,
      <<116, 111, 115, 116, 114, 105, 110, 103>>,
      <<44, 32, 44>>,
      <<49, 44, 48, 44, 48>>,
      <<43, 49>>,
      <<49, 46>>,
      <<49, 46, 53, 46>>,
      <<45, 32, 49>>,
      <<49, 32, 48, 48, 48>>,
      <<65297, 65294, 65301>> }

NormalizeInputs == UserStrings \cup WidthStrings \cup WhitespaceStrings \cup NormalizePhrases

\* options.lowercase of normalizeText: absent, true, false
LowercaseOptions == {Undefined, Bool(TRUE), Bool(FALSE)}

NormalizeInit ==
    /\ nzInput \in NormalizeInputs
    /\ nzCall = NoCall
    /\ nzResult = Undefined
    /\ nzAgain = Undefined
    /\ OthersIdle("normalize")

NotNormalize == <<gfVars, eqVars, sumVars, mcqVars, sessionVars, pageVars>>

CallToHalfWidth ==
    /\ nzCall = NoCall
    /\ nzCall' = [fn |-> "toHalfWidth", lowercase |-> Undefined]
    /\ nzResult' = Str(toHalfWidth(nzInput))
    /\ UNCHANGED <<nzInput, nzAgain, NotNormalize>>

CallNormalizeWhitespace ==
    /\ nzCall = NoCall
    /\ nzCall' = [fn |-> "normalizeWhitespace", lowercase |-> Undefined]
    /\ nzResult' = Str(normalizeWhitespace(nzInput))
    /\ UNCHANGED <<nzInput, nzAgain, NotNormalize>>

\* normalizeText(value, {lowercase}): options.lowercase !== false
CallNormalizeText ==
    /\ nzCall = NoCall
    /\ \E lowercase \in LowercaseOptions :
          /\ nzCall' = [fn |-> "normalizeText", lowercase |-> lowercase]
          /\ nzResult' = Str(normalizeText(nzInput, lowercase # Bool(FALSE)))
    /\ UNCHANGED <<nzInput, nzAgain, NotNormalize>>

\* normalizeText(normalizeText(value, options), options)
CallNormalizeTextAgain ==
    /\ nzCall.fn = "normalizeText"
    /\ nzAgain = Undefined
    /\ nzAgain' = Str(normalizeText(nzResult.s, nzCall.lowercase # Bool(FALSE)))
    /\ UNCHANGED <<nzInput, nzCall, nzResult, NotNormalize>>

CallParseDateString ==
    /\ nzCall = NoCall
    /\ nzCall' = [fn |-> "parseDateString", lowercase |-> Undefined]
    /\ nzResult' = parseDateString(nzInput)
    /\ UNCHANGED <<nzInput, nzAgain, NotNormalize>>

CallNormalizeNumberInput ==
    /\ nzCall = NoCall
    /\ nzCall' = [fn |-> "normalizeNumberInput", lowercase |-> Undefined]
    /\ nzResult' = normalizeNumberInput(nzInput)
    /\ UNCHANGED <<nzInput, nzAgain, NotNormalize>>

NormalizeNext ==
    \/ CallToHalfWidth
    \/ CallNormalizeWhitespace
    \/ CallNormalizeText
    \/ CallNormalizeTextAgain
    \/ CallParseDateString
    \/ CallNormalizeNumberInput

SpecNormalize == NormalizeInit /\ [][NormalizeNext]_vars

\* summarizeObjective(quiz, answers, userMcq, userFillins).  Question i of a
\* section has the id <<section, i>>; the documents come in two variants v
\* that differ in the weights, the keys and the rules.
QuestionScore(v, i) == IF (i + v) % 3 = 1 THEN Undefined ELSE Num((i + 1) * Scale)

McqAnswerOf(v, i) == IF v = 0 /\ i = 2 THEN Undefined ELSE Num((i % 2) * Scale)

FillinRuleOf(v, i) ==
    LET k == (i + 2 * (1 - v)) % 4
    IN IF k = 1 THEN TextRule(Str(<<97>>), NoArray, Undefined, Undefined)
       ELSE IF k = 2 THEN NumberRule(Num(0), Undefined)
       ELSE IF k = 3 THEN NoRule
       ELSE TextRule(Str(<<99, 111, 110, 115, 116, 114, 117, 99, 116, 111, 114>>), NoArray, Undefined, Bool(TRUE))

QuizOf(v, nMcq, nFillins) ==
    [mcq |-> [i \in 1..nMcq |-> [id |-> <<"mcq", i>>, score |-> QuestionScore(v + 1, i)]],
     fillins |-> [i \in 1..nFillins |-> [id |-> <<"fillin", i>>, score |-> QuestionScore(v, i)]]]

AnswersOf(v, nMcq, nFillins) ==
    [mcq |-> [id \in {<<"mcq", i>> : i \in 1..nMcq} |-> McqAnswerOf(v, id[2])],
     fillins |-> [id \in {<<"fillin", i>> : i \in 1..nFillins} |-> FillinRuleOf(v, id[2])]]

McqChoices == {Undefined, Null, Num(0), Num(Scale)}

FillinResponses == {Undefined, Null, Str(<<>>), Str(<<97>>), Num(0)}

SummaryInit ==
    /\ \E v \in 0..1, nMcq \in 0..MaxQuestions, nFillins \in 0..MaxQuestions :
          /\ quiz = QuizOf(v, nMcq, nFillins)
          /\ answers = AnswersOf(v, nMcq, nFillins)
          /\ userMcq \in [{<<"mcq", i>> : i \in 1..nMcq} -> McqChoices]
          /\ userFillins \in [{<<"fillin", i>> : i \in 1..nFillins} -> FillinResponses]
    /\ summary = NotCalled
    /\ sumDone = FALSE
    /\ objectiveScore = NotCalled
    /\ scoreDone = FALSE
    /\ OthersIdle("summarizeObjective")

CallSummarizeObjective ==
    /\ ~sumDone
    /\ summary' = summarizeObjective(quiz, answers, userMcq, userFillins)
    /\ sumDone' = TRUE
    /\ UNCHANGED <<quiz, answers, userMcq, userFillins, objectiveScore, scoreDone,
                   gfVars, eqVars, mcqVars, nzVars, sessionVars, pageVars>>

\* computeObjectiveScore(quiz, answers, userMcq, userFillins)
CallComputeObjectiveScore ==
    /\ ~scoreDone
    /\ objectiveScore' = computeObjectiveScore(quiz, answers, userMcq, userFillins)
    /\ scoreDone' = TRUE
    /\ UNCHANGED <<quiz, answers, userMcq, userFillins, summary, sumDone,
                   gfVars, eqVars, mcqVars, nzVars, sessionVars, pageVars>>

SummaryNext == CallSummarizeObjective \/ CallComputeObjectiveScore

SpecSummary == SummaryInit /\ [][SummaryNext]_vars

\* A session of the caller: it owns the answers, changes them between the
\* calls and passes them to summarizeObjective again and again.  The quiz
\* has one choice question and two fill-ins.
SessionArgs ==
    [quiz |-> quiz, answers |-> answers, userMcq |-> userMcq, userFillins |-> userFillins]

SessionInit ==
    /\ \E v \in 0..1 :
          /\ quiz = QuizOf(v, 1, 2)
          /\ answers = AnswersOf(v, 1, 2)
    /\ userMcq = [id \in {<<"mcq", 1>>} |-> Undefined]
    /\ userFillins = [id \in {<<"fillin", 1>>, <<"fillin", 2>>} |-> Undefined]
    /\ summary = NotCalled /\ sumDone = FALSE
    /\ objectiveScore = NotCalled /\ scoreDone = FALSE
    /\ objects = <<>> /\ calls = <<>> /\ edits = 0
    /\ GfIdle /\ EqIdle /\ McqIdle /\ NzIdle /\ PageIdle

NotSession ==
    <<gfVars, eqVars, mcqVars, nzVars, summary, sumDone, objectiveScore, scoreDone, pageVars>>

\* the caller records a choice
SessionChoose ==
    /\ edits < MaxEdits
    /\ \E id \in DOMAIN userMcq, choice \in {Num(0), Num(Scale)} :
          /\ userMcq[id] # choice
          /\ userMcq' = [userMcq EXCEPT ![id] = choice]
    /\ edits' = edits + 1
    /\ UNCHANGED <<quiz, answers, userFillins, objects, calls, NotSession>>

\* the caller records a response
SessionFill ==
    /\ edits < MaxEdits
    /\ \E id \in DOMAIN userFillins, response \in {Str(<<97>>), Str(<<>>)} :
          /\ userFillins[id] # response
          /\ userFillins' = [userFillins EXCEPT ![id] = response]
    /\ edits' = edits + 1
    /\ UNCHANGED <<quiz, answers, userMcq, objects, calls, NotSession>>

\* the state after a call, given what the call did
SessionAfterCall(done) ==
    /\ quiz' = done.after.quiz
    /\ answers' = done.after.answers
    /\ userMcq' = done.after.userMcq
    /\ userFillins' = done.after.userFillins
    /\ objects' = done.effect.heap
    /\ calls' = Append(calls,
                       [before |-> SessionArgs,
                        after |-> done.after,
                        outcome |-> done.effect.outcome,
                        returned |-> IF done.effect.outcome.thrown THEN Throw
                                     ELSE Ret(Deref(done.effect.heap,
                                                    done.effect.outcome.value))])

SessionSummarize ==
    /\ Len(calls) < MaxCalls
    /\ SessionAfterCall(summarizeObjectiveOnHeap(objects, SessionArgs))
    /\ UNCHANGED <<edits, NotSession>>

SessionNext == SessionChoose \/ SessionFill \/ SessionSummarize

SpecSession == SessionInit /\ [][SessionNext]_vars

----------------------------------------------------------------------------
(* Claims about gradeFillin (SpecGrade) and equalsText (SpecEq) *)

GfEmpty == gfInput.t \in {"null", "undefined"} \/ gfInput = Str(<<>>)

\* the user string as typed; a number as its decimal string
GfRaw == IF gfInput.t = "string" THEN gfInput.s ELSE NumberToString(gfInput)

Range(seq) == {seq[i] : i \in 1..Len(seq)}

\* C1: gradeFillin is total: every call returns a boolean and none raises
C1_GradeFillinTotal ==
    gfDone => (gfResult.thrown = FALSE /\ gfResult.value \in BOOLEAN)

\* C2: null, undefined and the empty string grade false under every rule
C2_EmptyInputFalse == gfDone /\ GfEmpty => gfResult = Ret(FALSE)

C2_Witness ==
    gfDone /\ gfInput = Str(<<>>) /\ gfRule = RegexRule(<<94, 36>>) /\ gfResult = Ret(FALSE)

\* C5: a text rule with candidates in accept is true iff equalsText holds for
\* at least one of them; else with an answer it is the result of equalsText on
\* the answer; else it is false
C5_TextRule ==
    gfDone /\ gfRule.mode = "text" /\ ~GfEmpty =>
        LET ci == Nullish(gfRule.caseInsensitive, Bool(TRUE))
            nz == Nullish(gfRule.normalizeZh, Bool(FALSE))
        IN IF gfRule.accept.items # <<>>
           THEN gfResult = Ret(\E c \in Range(gfRule.accept.items) :
                                   equalsText(GfRaw, c, ci, nz) = Ret(TRUE))
           ELSE IF gfRule.answer.t = "string" /\ gfRule.answer.s # <<>>
                THEN gfResult = equalsText(GfRaw, gfRule.answer.s, ci, nz)
           ELSE gfResult = Ret(FALSE)

\* C6: the synonym phrase equals its canonical token with normalizeZh and
\* does not equal it without
C6_SynonymNeedsNormalizeZh ==
    eqDone /\ eqArgs.input = <<21271, 20140, 26102, 38388>> /\ eqArgs.expected = <<117, 116, 99, 43, 56>> =>
        eqResult = Ret(Truthy(eqArgs.normalizeZh))

\* the number the input of gradeFillin coerces to, or null
GfNumber == IF IsNumber(gfInput) THEN gfInput ELSE normalizeNumberInput(gfInput.s)

\* C7: a number rule is true iff |u - answer| <= tolerance (0 when absent):
\* for tolerance >= 0 iff answer - tolerance <= u <= answer + tolerance, and
\* with no tolerance iff u = answer
C7_NumberTolerance ==
    gfDone /\ gfRule.mode = "number" /\ ~GfEmpty /\ GfNumber.t = "number" =>
        LET u == GfNumber.n
            a == gfRule.answer.n
            tol == IF gfRule.tolerance = Undefined THEN 0 ELSE gfRule.tolerance.n
        IN /\ ~gfResult.thrown
           /\ gfResult.value \in BOOLEAN
           /\ gfResult.value <=> (IF u >= a THEN u - a ELSE a - u) <= tol
           /\ tol >= 0 => (gfResult.value <=> (a - tol <= u /\ u <= a + tol))
           /\ gfRule.tolerance = Undefined => (gfResult.value <=> u = a)

C7_Witness ==
    /\ gfDone /\ gfInput = Str(<<49>>) /\ gfRule = NumberRule(Num(0), Num(Scale))
    /\ gfResult = Ret(TRUE)

\* C8: a date rule is false if the user value does not parse or no candidate
\* is left; else true iff some candidate parses to the user's date
C8_DateRule ==
    gfDone /\ gfRule.mode = "date" /\ ~GfEmpty =>
        LET user == parseDateString(GfRaw)
            listed == (IF gfRule.answer.t = "string" THEN {gfRule.answer.s} ELSE {})
                          \cup Range(gfRule.accept.items)
            candidates == {c \in listed : c # <<>>}
        IN gfResult = Ret(/\ user # Null
                          /\ candidates # {}
                          /\ \E c \in candidates : parseDateString(c) = user)

C8_Witness ==
    /\ gfDone /\ gfInput = Str(<<50, 48, 51, 52, 24180, 50, 26376, 49, 57, 26085>>)
    /\ gfRule = DateRule(Undefined, Array(<<<<110, 111, 32, 100, 97, 116, 101, 32, 104, 101, 114, 101>>, <<50, 48, 51, 52, 47, 50, 47, 49, 57>>>>))
    /\ gfResult = Ret(TRUE)

\* C9: a regex rule tests the pattern against the string as typed
C9_RegexRaw ==
    gfDone /\ gfRule.mode = "regex" /\ ~GfEmpty /\ RegExpCompiles(gfRule.pattern) =>
        gfResult = Ret(RegExpTest(gfRule.pattern, GfRaw))

C9_Witness ==
    gfDone /\ gfInput = Str(<<32, 97>>) /\ gfRule = RegexRule(<<94, 32, 97, 36>>) /\ gfResult = Ret(TRUE)

\* C10: a pattern that does not compile grades false, with a warning and
\* without raising
C10_BadPattern ==
    gfDone /\ gfRule.mode = "regex" /\ ~GfEmpty /\ ~RegExpCompiles(gfRule.pattern) =>
        gfResult = [thrown |-> FALSE, value |-> FALSE, warned |-> TRUE]

C10_Witness ==
    /\ gfDone /\ gfInput = Str(<<97, 98, 99, 40>>) /\ gfRule = RegexRule(<<40>>)
    /\ gfResult = [thrown |-> FALSE, value |-> FALSE, warned |-> TRUE]

\* C20: a rule whose mode is none of text, regex, number, date grades every
\* input false, without raising
C20_UnknownMode ==
    gfDone /\ gfRule.mode \notin {"text", "regex", "number", "date"} =>
        gfResult = Ret(FALSE)

\* a rule of mode exact whose answer is the input
C20_Witness ==
    /\ gfDone /\ gfInput = Str(<<97>>)
    /\ gfRule.mode = "exact" /\ gfRule.answer = Str(<<97>>)
    /\ gfResult = Ret(FALSE)

----------------------------------------------------------------------------
(* Claims about summarizeObjective (SpecSummary) *)

\* summarizeObjective has returned a summary
Summarized == sumDone /\ ~summary.thrown

\* the weight a question declares, 1 when it declares none
Weight(question) == IF question.score = Undefined THEN Scale ELSE question.score.n

McqVerdict(question) == gradeMcq(userMcq[question.id], answers.mcq[question.id])

FillinVerdict(question) ==
    /\ answers.fillins[question.id] # NoRule
    /\ gradeFillin(Nullish(userFillins[question.id], Str(<<>>)),
                   answers.fillins[question.id]) = Ret(TRUE)

\* the sum of the weights of the questions at the positions in idx
RECURSIVE WeightSum(_, _)
WeightSum(questions, idx) ==
    IF idx = {} THEN 0
    ELSE LET i == CHOOSE k \in idx : TRUE
         IN Weight(questions[i]) + WeightSum(questions, idx \ {i})

\* C3: per section, score is the sum of the weights of the questions whose
\* verdict is true and total the sum of all weights, the weight being 1 when
\* the question declares no score
C3_SectionSums ==
    Summarized =>
        /\ summary.value.mcq.total = WeightSum(quiz.mcq, DOMAIN quiz.mcq)
        /\ summary.value.mcq.score =
              WeightSum(quiz.mcq, {i \in DOMAIN quiz.mcq : McqVerdict(quiz.mcq[i])})
        /\ summary.value.fillins.total = WeightSum(quiz.fillins, DOMAIN quiz.fillins)
        /\ summary.value.fillins.score =
              WeightSum(quiz.fillins,
                        {i \in DOMAIN quiz.fillins : FillinVerdict(quiz.fillins[i])})

\* two fill-ins of weights 2 and 3, the first correct, the second blank, and
\* an unweighted choice question answered correctly
C3_Witness ==
    /\ Summarized
    /\ Len(quiz.fillins) = 2
    /\ quiz.fillins[1].score = Num(2 * Scale) /\ quiz.fillins[2].score = Num(3 * Scale)
    /\ userFillins[<<"fillin", 1>>] = Str(<<97>>) /\ userFillins[<<"fillin", 2>>] = Str(<<>>)
    /\ summary.value.fillins.score = 2 * Scale /\ summary.value.fillins.total = 5 * Scale
    /\ Len(quiz.mcq) = 2 /\ quiz.mcq[2].score = Undefined
    /\ summary.value.mcq.score = Scale

\* C4: an id is in correctIds iff its verdict is true, in incorrectIds iff
\* its verdict is false and the user gave an answer; the lists are disjoint
C4_IdLists ==
    Summarized =>
        /\ Range(summary.value.mcq.correctIds) =
              {q.id : q \in {x \in Range(quiz.mcq) : McqVerdict(x)}}
        /\ Range(summary.value.mcq.incorrectIds) =
              {q.id : q \in {x \in Range(quiz.mcq) :
                  ~McqVerdict(x) /\ userMcq[x.id] \notin {Null, Undefined}}}
        /\ Range(summary.value.fillins.correctIds) =
              {q.id : q \in {x \in Range(quiz.fillins) : FillinVerdict(x)}}
        /\ Range(summary.value.fillins.incorrectIds) =
              {q.id : q \in {x \in Range(quiz.fillins) :
                  ~FillinVerdict(x) /\ userFillins[x.id] \notin {Null, Undefined, Str(<<>>)}}}
        /\ Range(summary.value.mcq.correctIds) \cap Range(summary.value.mcq.incorrectIds) = {}
        /\ Range(summary.value.fillins.correctIds)
              \cap Range(summary.value.fillins.incorrectIds) = {}

\* one fill-in correct, one left blank: the blank one is in neither list
C4_Witness ==
    /\ Summarized
    /\ Len(quiz.fillins) = 2
    /\ userFillins[<<"fillin", 1>>] = Str(<<97>>) /\ userFillins[<<"fillin", 2>>] = Str(<<>>)
    /\ summary.value.fillins.correctIds = << <<"fillin", 1>> >>
    /\ summary.value.fillins.incorrectIds = <<>>
    /\ Len(quiz.mcq) = 2
    /\ userMcq[<<"mcq", 1>>] = Num(0) /\ userMcq[<<"mcq", 2>>] = Null
    /\ summary.value.mcq.incorrectIds = << <<"mcq", 1>> >>

\* C15: totalScore is mcq.score + fillins.score and totalPossible is
\* mcq.total + fillins.total; computeObjectiveScore returns that totalScore
\* for the same arguments
C15_Totals ==
    /\ Summarized =>
          /\ summary.value.totalScore =
                summary.value.mcq.score + summary.value.fillins.score
          /\ summary.value.totalPossible =
                summary.value.mcq.total + summary.value.fillins.total
    /\ scoreDone /\ ~objectiveScore.thrown =>
          objectiveScore.value =
              WeightSum(quiz.mcq, {i \in DOMAIN quiz.mcq : McqVerdict(quiz.mcq[i])})
                + WeightSum(quiz.fillins,
                            {i \in DOMAIN quiz.fillins : FillinVerdict(quiz.fillins[i])})
    /\ scoreDone /\ sumDone =>
          /\ objectiveScore.thrown = summary.thrown
          /\ ~summary.thrown => objectiveScore.value = summary.value.totalScore

\* both sections earn points, some points are not earned, and both calls made
C15_Witness ==
    /\ Summarized /\ scoreDone
    /\ summary.value.mcq.score > 0 /\ summary.value.fillins.score > 0
    /\ summary.value.totalScore < summary.value.totalPossible
    /\ objectiveScore = Ret(summary.value.totalScore)

\* the addresses a call's summary refers to
Refs(call) ==
    IF call.outcome.thrown THEN {} ELSE {call.outcome.value.mcq, call.outcome.value.fillins}

\* the outcome of a call as it reads now, through the objects as they are
Reads(call) ==
    IF call.outcome.thrown THEN Throw ELSE Ret(Deref(objects, call.outcome.value))

\* C16: summarizeObjective leaves its four arguments unchanged and builds a
\* new summary each call; no later call changes a summary that was returned,
\* and calls with the same arguments yield equal results whatever calls came
\* before or between
C16_Stateless ==
    \A i \in 1..Len(calls) :
        /\ calls[i].after = calls[i].before
        /\ Reads(calls[i]) = calls[i].returned
        /\ ~calls[i].outcome.thrown =>
              calls[i].outcome.value.mcq # calls[i].outcome.value.fillins
        /\ \A j \in 1..(i - 1) : Refs(calls[i]) \cap Refs(calls[j]) = {}
        /\ \A j \in 1..Len(calls) :
              calls[j].before = calls[i].before => Reads(calls[j]) = Reads(calls[i])
        /\ Reads(calls[i]) =
              summarizeObjective(calls[i].before.quiz, calls[i].before.answers,
                                 calls[i].before.userMcq, calls[i].before.userFillins)

\* three calls: the first and the third with the same answers, the second
\* with another answer in between; the first and third summaries are equal,
\* list a correct id, and differ from the second
C16_Witness ==
    /\ Len(calls) = 3
    /\ calls[1].before = calls[3].before
    /\ calls[2].before # calls[1].before
    /\ ~calls[1].outcome.thrown /\ ~calls[2].outcome.thrown /\ ~calls[3].outcome.thrown
    /\ Reads(calls[1]) = Reads(calls[3])
    /\ Reads(calls[1]) # Reads(calls[2])
    /\ Reads(calls[1]).value.fillins.correctIds # <<>>
    /\ Refs(calls[1]) \cap Refs(calls[3]) = {}

----------------------------------------------------------------------------
(* Claims about gradeMcq (SpecMcq) *)

\* C11: gradeMcq is false for a null or undefined choice; else it is true iff
\* the two indices are the same number, with no tolerance; the index 0 is a
\* choice: gradeMcq(0,0) is true, gradeMcq(0,1) false
C11_GradeMcq ==
    mcqDone =>
        /\ mcqCorrect \in BOOLEAN
        /\ mcqChoice \in {Null, Undefined} => mcqCorrect = FALSE
        /\ mcqChoice \notin {Null, Undefined} =>
              (mcqCorrect <=> /\ mcqChoice.t = "number" /\ mcqAnswer.t = "number"
                             /\ mcqChoice.n - mcqAnswer.n = 0)
        /\ mcqChoice = Num(0) /\ mcqAnswer = Num(0) => mcqCorrect = TRUE
        /\ mcqChoice = Num(0) /\ mcqAnswer = Num(Scale) => mcqCorrect = FALSE
        /\ mcqChoice = Num(Scale) /\ mcqAnswer = Num(Scale) => mcqCorrect = TRUE
        /\ mcqChoice = Null /\ mcqAnswer = Num(Scale) => mcqCorrect = FALSE

\* the index 0 chosen where 0 is the answer
C11_Witness ==
    mcqDone /\ mcqChoice = Num(0) /\ mcqAnswer = Num(0) /\ mcqCorrect = TRUE

----------------------------------------------------------------------------
(* Claims about lib/normalize (SpecNormalize) *)

Called(fn) == nzCall.fn = fn

\* C12: normalizeText is idempotent under the default lowercase option:
\* normalizeText(normalizeText(s)) = normalizeText(s) for every string s
C12_NormalizeTextIdempotent ==
    Called("normalizeText") /\ nzCall.lowercase # Bool(FALSE) /\ nzAgain # Undefined =>
        nzAgain = nzResult

\* s holds at position i four digits, one of - / 年 . , ml digits, one of
\* - / 月 . and dl digits
DateOccursAt(s, i, ml, dl) ==
    /\ i + 5 + ml + dl <= Len(s)
    /\ \A k \in i..(i + 3) : IsDigit(s[k])
    /\ s[i + 4] \in {45, 47, 24180, 46}
    /\ \A k \in (i + 5)..(i + 4 + ml) : IsDigit(s[k])
    /\ s[i + 5 + ml] \in {45, 47, 26376, 46}
    /\ \A k \in (i + 6 + ml)..(i + 5 + ml + dl) : IsDigit(s[k])

DateOccurs(s) == \E i \in 1..Len(s), ml \in 1..2, dl \in 1..2 : DateOccursAt(s, i, ml, dl)

\* the first occurrence in s, month and day as long as they can be:
\* <<position, month length, day length>>
FirstDate(s) ==
    LET i == CHOOSE a \in 1..Len(s) :
                 /\ \E ml \in 1..2, dl \in 1..2 : DateOccursAt(s, a, ml, dl)
                 /\ \A b \in 1..(a - 1) : \A ml \in 1..2, dl \in 1..2 : ~DateOccursAt(s, b, ml, dl)
        ml == IF \E dl \in 1..2 : DateOccursAt(s, i, 2, dl) THEN 2 ELSE 1
        dl == IF DateOccursAt(s, i, ml, 2) THEN 2 ELSE 1
    IN <<i, ml, dl>>

\* C13: parseDateString returns null when the width-normalized input holds
\* no occurrence of the date pattern; else it returns four year digits, '-',
\* two month digits, '-', two day digits, with the values of the first
\* occurrence
C13_ParseDateString ==
    Called("parseDateString") =>
        LET w == toHalfWidth(nzInput)
        IN IF ~DateOccurs(w) THEN nzResult = Null
           ELSE LET f == FirstDate(w)
                    r == nzResult.s
                IN /\ nzResult.t = "string"
                   /\ Len(r) = 10
                   /\ \A k \in {1, 2, 3, 4, 6, 7, 9, 10} : IsDigit(r[k])
                   /\ r[5] = 45 /\ r[8] = 45
                   /\ ParseInt(SubSeq(r, 1, 4)) = ParseInt(SubSeq(w, f[1], f[1] + 3))
                   /\ ParseInt(SubSeq(r, 6, 7)) = ParseInt(SubSeq(w, f[1] + 5, f[1] + 4 + f[2]))
                   /\ ParseInt(SubSeq(r, 9, 10)) =
                         ParseInt(SubSeq(w, f[1] + 6 + f[2], f[1] + 5 + f[2] + f[3]))

\* C14: normalizeNumberInput returns null whenever the string that remains
\* after text normalization and the removal of the commas is empty or does
\* not parse to a finite number, and a number only for the other inputs
C14_NormalizeNumberInput ==
    Called("normalizeNumberInput") =>
        LET remaining == RemoveCommas(normalizeText(nzInput, TRUE))
        IN IF remaining = <<>> \/ ToNumber(remaining).t # "number"
           THEN nzResult = Null
           ELSE nzResult.t = "number"

\* the ASCII character each punctuation character of the table stands for:
\* ， , 。 . ； ; ： : ！ ! ？ ? （ ( ） ) 【 [ 】 ] “ " ” " ‘ ' ’ ' 、 , and the
\* full-width space
ExpectedPunctuation ==
    {<<65292, 44>>, <<12290, 46>>, <<65307, 59>>, <<65306, 58>>, <<65281, 33>>,
     <<65311, 63>>, <<65288, 40>>, <<65289, 41>>, <<12304, 91>>, <<12305, 93>>,
     <<8220, 34>>, <<8221, 34>>, <<8216, 39>>, <<8217, 39>>, <<12289, 44>>,
     <<12288, 32>>}

\* the ASCII character of a full-width digit (０ is 65296), upper case letter
\* (Ａ is 65313), lower case letter (ａ is 65345) or table character, and
\* every other character itself
ExpectedHalfWidth(c) ==
    IF c \in 65296..65305 THEN 48 + (c - 65296)
    ELSE IF c \in 65313..65338 THEN 65 + (c - 65313)
    ELSE IF c \in 65345..65370 THEN 97 + (c - 65345)
    ELSE IF \E pair \in ExpectedPunctuation : pair[1] = c
         THEN (CHOOSE pair \in ExpectedPunctuation : pair[1] = c)[2]
    ELSE c

\* C17: toHalfWidth maps every full-width digit, letter and table character
\* to its ASCII character, leaves every other character as it is, and keeps
\* the length and the order of the characters
C17_ToHalfWidth ==
    Called("toHalfWidth") =>
        /\ nzResult.t = "string"
        /\ Len(nzResult.s) = Len(nzInput)
        /\ \A i \in 1..Len(nzInput) :
              /\ nzResult.s[i] = ExpectedHalfWidth(nzInput[i])
              /\ nzInput[i] \in FullWidthChars => nzResult.s[i] < 128
              /\ nzInput[i] \notin FullWidthChars => nzResult.s[i] = nzInput[i]

\* a full-width letter, then the full-width space
C17_Witness ==
    Called("toHalfWidth") /\ nzInput = <<65338, 12288>> /\ nzResult = Str(<<90, 32>>)

\* the keys of the synonym table: 北京时间, utc+8, 东八区; the canonical value
\* of each is utc+8
SynonymKeys ==
    {<<21271, 20140, 26102, 38388>>, <<117, 116, 99, 43, 56>>, <<19996, 20843, 21306>>}

\* the tokens of the collapsed (and lowercased) string
TokensOf(value, lowercase) ==
    LET collapsed == normalizeWhitespace(toHalfWidth(value))
    IN Split(IF lowercase THEN ToLowerCase(collapsed) ELSE collapsed, <<>>)

\* C18: the synonym substitution is by token: a token is replaced by its
\* canonical value iff the whole token is a key of the synonym table; a token
\* that holds a key as a proper substring, and any token that is no key, is
\* left unchanged
C18_TokenSubstitution ==
    Called("normalizeText") =>
        LET tokens == TokensOf(nzInput, nzCall.lowercase # Bool(FALSE))
        IN nzResult =
             Str(Join([i \in 1..Len(tokens) |->
                         IF tokens[i] \in SynonymKeys THEN <<117, 116, 99, 43, 56>>
                         ELSE tokens[i]]))

\* the positions of the characters of s that are no white space, in order
RECURSIVE InkPositions(_, _)
InkPositions(s, i) ==
    IF i > Len(s) THEN <<>>
    ELSE IF s[i] \in WhitespaceChars THEN InkPositions(s, i + 1)
    ELSE <<i>> \o InkPositions(s, i + 1)

\* the characters at the positions ps, with one space between two of them
\* wherever s holds anything between them
RECURSIVE SpacedOut(_, _)
SpacedOut(s, ps) ==
    IF ps = <<>> THEN <<>>
    ELSE IF Len(ps) = 1 THEN <<s[ps[1]]>>
    ELSE <<s[ps[1]]>> \o (IF ps[2] > ps[1] + 1 THEN <<32>> ELSE <<>>) \o SpacedOut(s, Tail(ps))

\* C19: normalizeWhitespace removes leading and trailing white space and
\* replaces every maximal run of white space by one space: the result neither
\* starts nor ends with white space, holds no two adjacent white space
\* characters, and the other characters keep their order
C19_NormalizeWhitespace ==
    Called("normalizeWhitespace") =>
        LET r == nzResult.s
        IN /\ nzResult.t = "string"
           /\ r = SpacedOut(nzInput, InkPositions(nzInput, 1))
           /\ r # <<>> => r[1] \notin WhitespaceChars /\ r[Len(r)] \notin WhitespaceChars
           /\ \A i \in 1..(Len(r) - 1) :
                 ~(r[i] \in WhitespaceChars /\ r[i + 1] \in WhitespaceChars)
           /\ \A i \in 1..Len(r) : r[i] \in WhitespaceChars => r[i] = 32
           /\ SelectSeq(r, LAMBDA c : c \notin WhitespaceChars)
                 = SelectSeq(nzInput, LAMBDA c : c \notin WhitespaceChars)

\* normalizeWhitespace(" a   b ") is "a b"
C19_Witness ==
    /\ Called("normalizeWhitespace")
    /\ nzInput = <<32, 97, 32, 32, 32, 98, 32>>
    /\ nzResult = Str(<<97, 32, 98>>)

----------------------------------------------------------------------------
(* Further claims about gradeFillin (SpecGrade) *)

\* the year, month and day of the first date in s, as numbers
DateComponents(s) ==
    LET f == FirstDate(s)
    IN <<ParseInt(SubSeq(s, f[1], f[1] + 3)),
         ParseInt(SubSeq(s, f[1] + 5, f[1] + 4 + f[2])),
         ParseInt(SubSeq(s, f[1] + 6 + f[2], f[1] + 5 + f[2] + f[3]))>>

\* the candidates of a date rule: the answer and the entries of accept that
\* are not empty
DateCandidates(rule) ==
    {c \in (IF rule.answer.t = "string" THEN {rule.answer.s} ELSE {})
               \cup Range(rule.accept.items) : c # <<>>}

\* C21: no calendar check is made: whatever the matched month and day are
\* (13, 00, 32 included), a user value and a candidate of a date rule that
\* hold the same year, month and day match
C21_NoCalendarCheck ==
    gfDone /\ gfRule.mode = "date" /\ ~GfEmpty =>
        LET w == toHalfWidth(GfRaw)
        IN (/\ DateOccurs(w)
            /\ \E c \in DateCandidates(gfRule) :
                  /\ DateOccurs(toHalfWidth(c))
                  /\ DateComponents(toHalfWidth(c)) = DateComponents(w))
           => gfResult = Ret(TRUE)

\* month 13 and day 32 on both sides, written with different separators
C21_Witness ==
    /\ gfDone /\ gfInput = Str(<<50, 48, 51, 52, 47, 49, 51, 47, 51, 50>>)
    /\ gfRule = DateRule(Undefined, Array(<<<<>>, <<50, 48, 51, 52, 45, 49, 51, 45, 51, 50>>>>))
    /\ gfResult = Ret(TRUE)

----------------------------------------------------------------------------
(* Further claims about summarizeObjective (SpecSummary) *)

\* the position at which the question id is declared in a section
DeclaredAt(questions, id) == CHOOSE k \in DOMAIN questions : questions[k].id = id

\* ids lists ids of the questions, each at most once, in declaration order
InDeclarationOrder(ids, questions) ==
    /\ \A a \in DOMAIN ids : \E k \in DOMAIN questions : questions[k].id = ids[a]
    /\ \A a, b \in DOMAIN ids :
          a < b => DeclaredAt(questions, ids[a]) < DeclaredAt(questions, ids[b])

\* C22: in each section correctIds and incorrectIds are subsequences of the
\* section's question ids in declaration order, and every question is
\* visited exactly once
C22_DeclarationOrder ==
    Summarized =>
        /\ InDeclarationOrder(summary.value.mcq.correctIds, quiz.mcq)
        /\ InDeclarationOrder(summary.value.mcq.incorrectIds, quiz.mcq)
        /\ InDeclarationOrder(summary.value.fillins.correctIds, quiz.fillins)
        /\ InDeclarationOrder(summary.value.fillins.incorrectIds, quiz.fillins)
        /\ Len(summary.value.mcq.correctIds) + Len(summary.value.mcq.incorrectIds)
              <= Len(quiz.mcq)
        /\ Len(summary.value.fillins.correctIds) + Len(summary.value.fillins.incorrectIds)
              <= Len(quiz.fillins)
        /\ summary.value.mcq.total = WeightSum(quiz.mcq, DOMAIN quiz.mcq)
        /\ summary.value.fillins.total = WeightSum(quiz.fillins, DOMAIN quiz.fillins)

\* two correct choices and two wrong responses, each list in declaration order
C22_Witness ==
    /\ Summarized
    /\ summary.value.mcq.correctIds = << <<"mcq", 1>>, <<"mcq", 2>> >>
    /\ summary.value.fillins.incorrectIds = << <<"fillin", 1>>, <<"fillin", 2>> >>

----------------------------------------------------------------------------
(* Further claims about equalsText (SpecEq) *)

\* a character without its width and its case, every whitespace a space
FoldChar(c) ==
    LET h == IF c \in (65296..65305) \cup (65313..65338) \cup (65345..65370) THEN c - 65248
             ELSE IF IsWhitespace(c) THEN 32
             ELSE c
    IN IF h \in 65..90 THEN h + 32 ELSE h

\* a run of spaces becomes one space
RECURSIVE Squeeze(_)
Squeeze(s) ==
    IF Len(s) <= 1 THEN s
    ELSE IF s[1] = 32 /\ s[2] = 32 THEN Squeeze(Tail(s))
    ELSE <<s[1]>> \o Squeeze(Tail(s))

\* the strings differ at most in letter case, character width and the
\* length of whitespace runs
DifferOnlyInForm(a, b) ==
    Squeeze([i \in DOMAIN a |-> FoldChar(a[i])]) = Squeeze([i \in DOMAIN b |-> FoldChar(b[i])])

\* the strings hold the same letter in different case at some position
DifferInCase(a, b) ==
    /\ Len(a) = Len(b)
    /\ \E i \in DOMAIN a :
          /\ a[i] # b[i]
          /\ {a[i], b[i]} \subseteq (65..90) \cup (97..122)
          /\ FoldChar(a[i]) = FoldChar(b[i])

\* C23: with caseInsensitive true or absent, two strings that differ only in
\* letter case, character width or whitespace runs are equal; with
\* caseInsensitive false, two strings that differ in the case of some letter
\* are not equal
C23_CaseFolding ==
    eqDone =>
        /\ eqArgs.caseInsensitive # Bool(FALSE) /\ DifferOnlyInForm(eqArgs.input, eqArgs.expected)
              => eqResult = Ret(TRUE)
        /\ eqArgs.caseInsensitive = Bool(FALSE) /\ DifferInCase(eqArgs.input, eqArgs.expected)
              => eqResult = Ret(FALSE)

\* the same, for the calls that do not read the synonym table with expected
C23_CaseFoldingWithoutNormalizeZh == Truthy(eqArgs.normalizeZh) \/ C23_CaseFolding

\* a text rule hands its caseInsensitive, true when absent, to equalsText
C23_RulePassesOption ==
    gfDone /\ gfRule.mode = "text" /\ ~GfEmpty /\ gfRule.accept.items = <<>>
           /\ gfRule.answer.t = "string" /\ gfRule.answer.s # <<>> =>
        gfResult = equalsText(GfRaw, gfRule.answer.s,
                              Nullish(gfRule.caseInsensitive, Bool(TRUE)),
                              Nullish(gfRule.normalizeZh, Bool(FALSE)))

----------------------------------------------------------------------------
(* Further claims about number rules (SpecGrade) *)

\* a digit or a comma of either width, as its half-width character
NumberChar(c) == IF c = 65292 THEN 44 ELSE FoldChar(c)

\* the string is written with digits and commas of either width only and
\* holds a digit
DigitsAndCommas(s) ==
    /\ \A i \in DOMAIN s : NumberChar(s[i]) \in (48..57) \cup {44}
    /\ \E i \in DOMAIN s : NumberChar(s[i]) \in 48..57

\* the integer the digits of the string write
DigitsValue(s) ==
    ParseInt(SelectSeq([i \in DOMAIN s |-> NumberChar(s[i])], LAMBDA c : c \in 48..57))

\* the verdict of the number rule on the number u
NumberVerdict(u) ==
    Ret(WithinTolerance(u, gfRule.answer, Nullish(gfRule.tolerance, Num(0))))

\* C24: under a number rule a number is compared as it is; a string is
\* converted by normalizeNumberInput first, so a string of digits and commas
\* of either width grades like the integer its digits write, and a string
\* that converts to null grades false
C24_NumberCoercion ==
    gfDone /\ gfRule.mode = "number" /\ ~GfEmpty =>
        /\ gfInput.t = "number" => gfResult = NumberVerdict(gfInput)
        /\ gfInput.t = "string" /\ normalizeNumberInput(gfInput.s).t = "number"
              => gfResult = NumberVerdict(normalizeNumberInput(gfInput.s))
        /\ gfInput.t = "string" /\ DigitsAndCommas(gfInput.s)
              => gfResult = NumberVerdict(Num(DigitsValue(gfInput.s) * Scale))
        /\ gfInput.t = "string" /\ normalizeNumberInput(gfInput.s) = Null
              => gfResult = Ret(FALSE)

\* the full-width 1,000 under a rule whose answer is 1000
C24_Witness ==
    /\ gfDone /\ gfInput = Str(<<65297, 65292, 65296, 65296, 65296>>)
    /\ gfRule = NumberRule(Num(1000 * Scale), Undefined)
    /\ gfResult = Ret(TRUE)

\* a string that converts to null under a rule with a tolerance
C24_WitnessNull ==
    /\ gfDone /\ gfInput = Str(<<97>>) /\ gfRule = NumberRule(Num(0), Num(Scale))
    /\ normalizeNumberInput(gfInput.s) = Null
    /\ gfResult = Ret(FALSE)

----------------------------------------------------------------------------
(* The normalizeZh option of equalsText (SpecEq) *)

\* C27: the normalizeZh option never changes the result of equalsText: with
\* either caseInsensitive setting the call with normalizeZh true and the call
\* with normalizeZh false have the same outcome
C27_NormalizeZhNoEffect ==
    eqDone =>
        equalsText(eqArgs.input, eqArgs.expected, eqArgs.caseInsensitive, Bool(TRUE))
            = equalsText(eqArgs.input, eqArgs.expected, eqArgs.caseInsensitive, Bool(FALSE))

\* the same, for the calls in which neither outcome is an exception
C27_NoEffectUnlessRaised ==
    eqDone /\ ~equalsText(eqArgs.input, eqArgs.expected, eqArgs.caseInsensitive, Bool(TRUE)).thrown =>
        equalsText(eqArgs.input, eqArgs.expected, eqArgs.caseInsensitive, Bool(TRUE))
            = equalsText(eqArgs.input, eqArgs.expected, eqArgs.caseInsensitive, Bool(FALSE))

----------------------------------------------------------------------------
(* Fill-in questions without a rule (SpecSummary) *)

\* the user's answer is neither null nor undefined nor the empty string
Answered(user) == user.t \notin {"null", "undefined"} /\ user # Str(<<>>)

\* C29: a fill-in question without a rule in the answer document is graded
\* false and nothing is raised for it: its weight is in total and not in
\* score, and its id is in incorrectIds iff the user's answer is neither
\* null nor empty
C29_MissingRule ==
    /\ sumDone /\ (\A k \in DOMAIN quiz.fillins : answers.fillins[quiz.fillins[k].id] = NoRule)
          => ~summary.thrown
    /\ Summarized =>
          \A k \in DOMAIN quiz.fillins :
              answers.fillins[quiz.fillins[k].id] = NoRule =>
                  /\ quiz.fillins[k].id \notin Range(summary.value.fillins.correctIds)
                  /\ quiz.fillins[k].id \in Range(summary.value.fillins.incorrectIds)
                        <=> Answered(userFillins[quiz.fillins[k].id])
                  /\ summary.value.fillins.total = WeightSum(quiz.fillins, DOMAIN quiz.fillins)
                  /\ summary.value.fillins.score =
                        WeightSum(quiz.fillins,
                                  {i \in DOMAIN quiz.fillins \ {k} :
                                      quiz.fillins[i].id \in Range(summary.value.fillins.correctIds)})

\* an answered question without a rule before an unanswered one with a rule
C29_Witness ==
    /\ Summarized /\ Len(quiz.fillins) = 2
    /\ answers.fillins[<<"fillin", 1>>] = NoRule
    /\ userFillins[<<"fillin", 1>>] = Str(<<97>>)
    /\ summary.value.fillins.correctIds = <<>>
    /\ summary.value.fillins.incorrectIds = << <<"fillin", 1>> >>
    /\ summary.value.fillins.score = 0
    /\ summary.value.fillins.total = Weight(quiz.fillins[1]) + Weight(quiz.fillins[2])

\* an unanswered question without a rule is in neither list
C29_WitnessBlank ==
    /\ Summarized /\ Len(quiz.fillins) >= 1
    /\ answers.fillins[<<"fillin", 1>>] = NoRule
    /\ userFillins[<<"fillin", 1>>] = Null
    /\ summary.value.fillins.incorrectIds = <<>>
    /\ summary.value.fillins.total > 0

----------------------------------------------------------------------------
(* The quiz page: the App component                                        *)
(*                                                                         *)
(* The state of the component is mcqResponses, fillinResponses,            *)
(* fillinStatus, isSubmitted and showAnswers (the essay text and the name  *)
(* take no part in grading and are left out).  Every handler runs to its   *)
(* end, then the component renders and its effects write the storage: one  *)
(* action each.  A render in which summarizeObjective raises unmounts the  *)
(* component, and its effects do not run.                                  *)
(*                                                                         *)
(* gradeFillin and summarizeObjective keep no state, so the outcome of a   *)
(* call is a function of its arguments: the outcomes of the calls the page *)
(* can make are worked out when the page is opened (fillinGrades,          *)
(* summaries) and a call is a look-up.                                     *)

\* buildDefaultState(quiz)
buildDefaultState(q) ==
    [mcq |-> [id \in {q.mcq[k].id : k \in DOMAIN q.mcq} |-> Null],
     fillins |-> [id \in {q.fillins[k].id : k \in DOMAIN q.fillins} |-> Str(<<>>)],
     fillinStatus |-> [id \in {q.fillins[k].id : k \in DOMAIN q.fillins} |-> Null]]

\* { ...defaults, ...stored }
Spread(defaults, stored) ==
    [id \in DOMAIN defaults \cup DOMAIN stored |->
        IF id \in DOMAIN stored THEN stored[id] ELSE defaults[id]]

\* localStorage.getItem gives null for an item that is not there
NoItem == Null

EmptyStorage == [payload |-> NoItem, meta |-> NoItem, score |-> NoItem]

\* storedPayload?.field and storedMeta?.field
Optional(item, field) == IF item = NoItem THEN Undefined ELSE item[field]

\* storedPayload?.mcq ?? {} and the like
OptionalMap(item, field) == IF item = NoItem THEN <<>> ELSE item[field]

\* the initial values of the useState calls, submitted being the initial
\* value of isSubmitted
InitialStateOf(defaults, storedPayload, storedMeta, submitted) ==
    [mcqResponses |-> Spread(defaults.mcq, OptionalMap(storedPayload, "mcq")),
     fillinResponses |-> Spread(defaults.fillins, OptionalMap(storedPayload, "fillins")),
     fillinStatus |-> Spread(defaults.fillinStatus, OptionalMap(storedMeta, "fillinStatus")),
     isSubmitted |-> submitted,
     showAnswers |-> IF Truthy(submitted)
                     THEN Nullish(Optional(storedPayload, "showAnswers"), Bool(FALSE))
                     ELSE Bool(FALSE)]

\* the state the component is constructed with, given the items of the storage
InitialState(storage) ==
    InitialStateOf(buildDefaultState(quiz), storage.payload, storage.meta,
                   Nullish(Optional(storage.meta, "isSubmitted"),
                           Nullish(Optional(storage.payload, "submitted"), Bool(FALSE))))

\* the state of the component
State ==
    [mcqResponses |-> mcqResponses, fillinResponses |-> fillinResponses,
     fillinStatus |-> fillinStatus, isSubmitted |-> isSubmitted,
     showAnswers |-> showAnswers]

\* the indices a choice is made of and the strings a response is typed as
PageChoices == {Num(0), Num(Scale)}
PageStrings == {<<>>, <<97>>, <<48>>}

\* gradeFillin(value, answers.fillins[id]) for the responses of the page
GradesOf(q, a) ==
    [id \in {q.fillins[k].id : k \in DOMAIN q.fillins} |->
        [value \in {Str(x) : x \in PageStrings} |-> gradeFillin(value, a.fillins[id])]]

\* summarizeObjective(quiz, answers, mcqMap, fillMap) for the maps of the page
SummariesOf(q, a) ==
    [maps \in [{q.mcq[k].id : k \in DOMAIN q.mcq} -> {Null} \cup PageChoices]
               \X [{q.fillins[k].id : k \in DOMAIN q.fillins} -> {Str(x) : x \in PageStrings}] |->
        summarizeObjective(q, a, maps[1], maps[2])]

\* the summary a render computes from the state st
PageSummary(st) ==
    summaries[<<[id \in {quiz.mcq[k].id : k \in DOMAIN quiz.mcq} |->
                   Nullish(st.mcqResponses[id], Null)],
                [id \in {quiz.fillins[k].id : k \in DOMAIN quiz.fillins} |->
                   Nullish(st.fillinResponses[id], Str(<<>>))]>>]

\* the items the three effects write after a render of the state st
StoredBy(st, sm) ==
    [payload |-> [mcq |-> st.mcqResponses, fillins |-> st.fillinResponses,
                  showAnswers |-> st.showAnswers, submitted |-> st.isSubmitted],
     meta |-> [fillinStatus |-> st.fillinStatus, isSubmitted |-> st.isSubmitted],
     score |-> IF Truthy(st.isSubmitted) THEN Num(sm.value.totalScore) ELSE NoItem]

\* the render of the state st computes the summary sm; unless that raised,
\* the effects write the storage
Rendered(st, sm, storage) ==
    /\ mcqResponses' = st.mcqResponses
    /\ fillinResponses' = st.fillinResponses
    /\ fillinStatus' = st.fillinStatus
    /\ isSubmitted' = st.isSubmitted
    /\ showAnswers' = st.showAnswers
    /\ summary' = sm
    /\ mounted' = ~sm.thrown
    /\ localStorage' = IF sm.thrown THEN storage ELSE StoredBy(st, sm)

\* what the page leaves alone
NotPage ==
    <<gfVars, eqVars, mcqVars, nzVars, sessionVars, quiz, answers, userMcq, userFillins,
      sumDone, objectiveScore, scoreDone, fillinGrades, summaries>>

\* the handler named event has set the state st, the storage being as it
\* left it: the component renders and its effects run
Render(event, st, storage) ==
    /\ Rendered(st, PageSummary(st), storage)
    /\ lastEvent' = event
    /\ UNCHANGED NotPage

\* the handler changes no state, and nothing renders
NoUpdate(event) ==
    /\ lastEvent' = event
    /\ UNCHANGED <<mcqResponses, fillinResponses, fillinStatus, isSubmitted, showAnswers,
                   summary, mounted, localStorage, NotPage>>

handleSelectMcq ==
    /\ mounted
    /\ \E k \in DOMAIN quiz.mcq, choice \in PageChoices :
          Render("select", [State EXCEPT !.mcqResponses[quiz.mcq[k].id] = choice], localStorage)

\* setFillinStatus with the result of gradeFillin; when that raised, no
\* status is set
SetGraded(st, id, result) ==
    IF result.thrown THEN st ELSE [st EXCEPT !.fillinStatus[id] = Bool(result.value)]

\* the state after updateFillinStatus(question, value)
updateFillinStatus(st, question, value) ==
    IF answers.fillins[question.id] = NoRule
    THEN [st EXCEPT !.fillinStatus[question.id] = Null]
    ELSE IF ~Truthy(value) THEN [st EXCEPT !.fillinStatus[question.id] = Null]
    ELSE SetGraded(st, question.id, fillinGrades[question.id][value])

\* handleChangeFillin that leaves the status as it is once submitted
handleChangeFillin_keepStatus ==
    /\ mounted
    /\ \E k \in DOMAIN quiz.fillins, value \in PageStrings :
          IF Truthy(isSubmitted)
          THEN Render("edit", [State EXCEPT !.fillinResponses[quiz.fillins[k].id] = Str(value)],
                      localStorage)
          ELSE Render("edit", [State EXCEPT !.fillinResponses[quiz.fillins[k].id] = Str(value),
                                            !.fillinStatus[quiz.fillins[k].id] = Null],
                      localStorage)

\* handleChangeFillin that grades before submission too
handleChangeFillin_alwaysGrades ==
    /\ mounted
    /\ \E k \in DOMAIN quiz.fillins, value \in PageStrings :
          Render("edit",
                 updateFillinStatus(
                     [State EXCEPT !.fillinResponses[quiz.fillins[k].id] = Str(value)],
                     quiz.fillins[k], Str(value)),
                 localStorage)

handleChangeFillin ==
    /\ mounted
    /\ \E k \in DOMAIN quiz.fillins, value \in PageStrings :
          IF Truthy(isSubmitted)
          THEN Render("edit",
                      updateFillinStatus(
                          [State EXCEPT !.fillinResponses[quiz.fillins[k].id] = Str(value)],
                          quiz.fillins[k], Str(value)),
                      localStorage)
          ELSE Render("edit", [State EXCEPT !.fillinResponses[quiz.fillins[k].id] = Str(value),
                                            !.fillinStatus[quiz.fillins[k].id] = Null],
                      localStorage)

\* value ? gradeFillin(value, rule) : false
CheckedValue(id, value) == IF Truthy(value) THEN fillinGrades[id][value] ELSE Ret(FALSE)

\* handleCheckFillin past its test of isSubmitted and of the rule, status
\* being the outcome of the grading
CheckFillin(id, status) ==
    IF status.thrown THEN NoUpdate("check")
    ELSE Render("check", [State EXCEPT !.fillinStatus[id] = Bool(status.value)], localStorage)

handleCheckFillin ==
    /\ mounted
    /\ \E k \in DOMAIN quiz.fillins :
          IF ~Truthy(isSubmitted) \/ answers.fillins[quiz.fillins[k].id] = NoRule
          THEN NoUpdate("check")
          ELSE CheckFillin(quiz.fillins[k].id,
                           CheckedValue(quiz.fillins[k].id,
                                        Nullish(fillinResponses[quiz.fillins[k].id], Str(<<>>))))

\* value && rule ? gradeFillin(value, rule) : false
CheckedStatus(id, value, rule) ==
    IF Truthy(value) /\ rule # NoRule THEN fillinGrades[id][value] ELSE Ret(FALSE)

\* the updates of handleCheckAllFillins and of handleSubmit, one per question
StatusUpdates ==
    [id \in {quiz.fillins[k].id : k \in DOMAIN quiz.fillins} |->
        CheckedStatus(id, Nullish(fillinResponses[id], Str(<<>>)), answers.fillins[id])]

\* setFillinStatus((prev) => ({ ...prev, ...updates })) on the state st; when
\* gradeFillin raised in the loop, the handler has ended before it
SetStatuses(event, st, updates) ==
    IF \E id \in DOMAIN updates : updates[id].thrown THEN NoUpdate(event)
    ELSE Render(event,
                [st EXCEPT !.fillinStatus =
                    Spread(@, [id \in DOMAIN updates |-> Bool(updates[id].value)])],
                localStorage)

handleCheckAllFillins ==
    /\ mounted
    /\ IF ~Truthy(isSubmitted) THEN NoUpdate("checkAll")
       ELSE SetStatuses("checkAll", State, StatusUpdates)

\* handleToggleAnswers without its test of isSubmitted
handleToggleAnswers_unguarded ==
    /\ mounted
    /\ Render("toggle", [State EXCEPT !.showAnswers = Bool(~Truthy(@))], localStorage)

handleToggleAnswers ==
    /\ mounted
    /\ IF ~Truthy(isSubmitted) THEN NoUpdate("toggle")
       ELSE Render("toggle", [State EXCEPT !.showAnswers = Bool(~Truthy(@))], localStorage)

\* the state handleReset sets
ResetState(defaultsState) ==
    [mcqResponses |-> defaultsState.mcq,
     fillinResponses |-> defaultsState.fillins,
     fillinStatus |-> defaultsState.fillinStatus,
     isSubmitted |-> Bool(FALSE),
     showAnswers |-> Bool(FALSE)]

handleReset ==
    /\ mounted
    /\ Render("reset", ResetState(buildDefaultState(quiz)), EmptyStorage)

handleSubmit ==
    /\ mounted
    /\ IF Truthy(isSubmitted) THEN NoUpdate("submit")
       ELSE SetStatuses("submit",
                        [State EXCEPT !.isSubmitted = Bool(TRUE), !.showAnswers = Bool(TRUE)],
                        StatusUpdates)

\* the page is loaded again: the component is constructed from the storage
Reload ==
    /\ Rendered(InitialState(localStorage), PageSummary(InitialState(localStorage)),
                localStorage)
    /\ lastEvent' = "load"
    /\ UNCHANGED NotPage

\* the items a browser may hold when the page is opened
StoredFlags == {Undefined, Bool(TRUE), Bool(FALSE)}
StoredResponses == {<<>>} \cup [{<<"fillin", 1>>, <<"fillin", 2>>} -> {Str(<<>>), Str(<<97>>)}]
StoredStatuses == {<<>>} \cup [{<<"fillin", 1>>, <<"fillin", 2>>} -> {Null, Bool(TRUE), Bool(FALSE)}]

StoredPayloads ==
    {NoItem} \cup [mcq : {<<>>}, fillins : StoredResponses,
                   showAnswers : StoredFlags, submitted : StoredFlags]

StoredMetas ==
    {NoItem} \cup [fillinStatus : StoredStatuses, isSubmitted : StoredFlags \cup {Null}]

AnyStorage == [payload : StoredPayloads, meta : StoredMetas, score : {NoItem}]

\* the component is constructed with the state st and its first render
\* computes the summary sm
Constructed(st, sm, storage) ==
    /\ mcqResponses = st.mcqResponses
    /\ fillinResponses = st.fillinResponses
    /\ fillinStatus = st.fillinStatus
    /\ isSubmitted = st.isSubmitted
    /\ showAnswers = st.showAnswers
    /\ summary = sm
    /\ mounted = ~sm.thrown
    /\ localStorage = IF sm.thrown THEN storage ELSE StoredBy(st, sm)

\* the page of one of the quizzes, before the component is constructed
PageLoaded ==
    /\ \E v \in 0..1 :
          /\ quiz = QuizOf(v, 1, 2)
          /\ answers = AnswersOf(v, 1, 2)
    /\ fillinGrades = GradesOf(quiz, answers)
    /\ summaries = SummariesOf(quiz, answers)
    /\ lastEvent = "load"
    /\ userMcq = <<>> /\ userFillins = <<>> /\ sumDone = FALSE
    /\ objectiveScore = NotCalled /\ scoreDone = FALSE
    /\ GfIdle /\ EqIdle /\ McqIdle /\ NzIdle /\ SessionIdle

\* the page is opened in a browser that holds the items of storage
PageOpened(storage) ==
    Constructed(InitialState(storage), PageSummary(InitialState(storage)), storage)

PageInit == PageLoaded /\ \E storage \in AnyStorage : PageOpened(storage)

FreshPageInit == PageLoaded /\ PageOpened(EmptyStorage)

PageNext ==
    \/ handleSelectMcq
    \/ handleChangeFillin
    \/ handleCheckFillin
    \/ handleCheckAllFillins
    \/ handleToggleAnswers
    \/ handleReset
    \/ handleSubmit
    \/ Reload

SpecPage == PageInit /\ [][PageNext]_vars

SpecFreshPage == FreshPageInit /\ [][PageNext]_vars

----------------------------------------------------------------------------
(* Claims about the quiz page (SpecPage, SpecFreshPage) *)

\* C25: showAnswers implies isSubmitted in every state the page reaches from
\* any stored state: answers and explanations are never switched on while
\* the quiz is unsubmitted
C25_AnswersOnlyAfterSubmit == Truthy(showAnswers) => Truthy(isSubmitted)

\* the toggle before submission
C25_Witness ==
    /\ mounted /\ lastEvent = "toggle"
    /\ ~Truthy(isSubmitted) /\ showAnswers = Bool(FALSE)

\* the toggle after submission switches the answers off
C25_WitnessOff ==
    /\ mounted /\ lastEvent = "toggle"
    /\ isSubmitted = Bool(TRUE) /\ showAnswers = Bool(FALSE)

\* toggle changes nothing before submit, submit sets both flags, reset
\* clears both
C25_Handlers ==
    [][/\ lastEvent' = "toggle" /\ ~Truthy(isSubmitted) => UNCHANGED <<isSubmitted, showAnswers>>
       /\ lastEvent' = "submit" /\ ~Truthy(isSubmitted)
             => isSubmitted' = Bool(TRUE) /\ showAnswers' = Bool(TRUE)
       /\ lastEvent' = "reset" => isSubmitted' = Bool(FALSE) /\ showAnswers' = Bool(FALSE)]_vars

\* C26: starting from empty storage, no fill-in status holds a verdict in an
\* unsubmitted state
C26_NoVerdictBeforeSubmit ==
    ~Truthy(isSubmitted) => \A id \in DOMAIN fillinStatus : fillinStatus[id] = Null

\* a check of an answered question that has a rule, before submission
C26_Witness ==
    /\ mounted /\ lastEvent = "check" /\ ~Truthy(isSubmitted)
    /\ answers.fillins[<<"fillin", 1>>] # NoRule
    /\ fillinResponses[<<"fillin", 1>>] = Str(<<97>>)
    /\ fillinStatus[<<"fillin", 1>>] = Null

\* while unsubmitted, the two checks change no state and an edit sets the
\* status of its question to null
C26_Handlers ==
    [][~Truthy(isSubmitted) =>
          /\ lastEvent' \in {"check", "checkAll"}
                => UNCHANGED <<mcqResponses, fillinResponses, fillinStatus, isSubmitted,
                               showAnswers, summary, localStorage>>
          /\ lastEvent' = "edit"
                => \A id \in DOMAIN fillinStatus :
                      fillinResponses'[id] # fillinResponses[id] => fillinStatus'[id] = Null]_vars

\* C28: once submitted, the status of every fill-in question that has a rule
\* and a non-empty response is gradeFillin(response, rule), and it is true
\* iff the id is in summary.fillins.correctIds
C28_StatusIsVerdict ==
    mounted /\ Truthy(isSubmitted) =>
        \A k \in DOMAIN quiz.fillins :
            answers.fillins[quiz.fillins[k].id] # NoRule
                /\ Truthy(fillinResponses[quiz.fillins[k].id]) =>
                    /\ Ret(fillinStatus[quiz.fillins[k].id] = Bool(TRUE))
                          = gradeFillin(fillinResponses[quiz.fillins[k].id],
                                        answers.fillins[quiz.fillins[k].id])
                    /\ fillinStatus[quiz.fillins[k].id] \in {Bool(TRUE), Bool(FALSE)}
                    /\ fillinStatus[quiz.fillins[k].id] = Bool(TRUE)
                          <=> quiz.fillins[k].id \in Range(summary.value.fillins.correctIds)

\* an edit after submission: one response right, the other wrong
C28_Witness ==
    /\ mounted /\ isSubmitted = Bool(TRUE) /\ lastEvent = "edit"
    /\ fillinResponses = [id \in {<<"fillin", 1>>, <<"fillin", 2>>} |-> Str(<<97>>)]
    /\ fillinStatus[<<"fillin", 1>>] = Bool(TRUE)
    /\ fillinStatus[<<"fillin", 2>>] = Bool(FALSE)
    /\ summary.value.fillins.correctIds = << <<"fillin", 1>> >>

\* a response under which gradeFillin raises unmounts the page
PageCrashed == ~mounted /\ lastEvent = "edit"

====
